---- MODULE Spec2Model ----
(***************************************************************************)
(* Model of the feedback pipeline of the-lost-world: the batch             *)
(* orchestrator (pipeline/batch.py), the agents it drives and the budget   *)
(* ledger (pipeline/budget.py).                                            *)
(*                                                                         *)
(* Money is counted in micro-GBP so that the float constants of the        *)
(* source (2.00, 8.00, 0.000012) become integers.  The target repository   *)
(* is assumed to sit on a named branch ("main") and the project scripts    *)
(* are assumed not to touch the working tree.                              *)
(*                                                                         *)
(* SpecDeploy runs DeployerAgent.run once, on any change list, with every  *)
(* subprocess call free to fail or to run into the timeout.  SpecBatch     *)
(* runs run_batch up to MaxBatches times over NumRefs submissions with the *)
(* agents of the default registry; there the back-ends answer from small   *)
(* menus, one call of the paid model costs WriterTokens or ReviewerTokens  *)
(* (sized so that the daily cap is reached after one task of three         *)
(* attempts), and only the project scripts run into the timeout.           *)
(***************************************************************************)
EXTENDS Integers, Sequences, FiniteSets, TLC

VARIABLES
    \* ---- target repository and file system (deployer_agent.py) ----
    fs,               \* resolved path -> content, or Absent
    repo,             \* git state: head, feature, mainTree, featTree, merges
    dpc,              \* position inside DeployerAgent.run
    dchanges,         \* the change list DeployerAgent.run was called with
    original_branch,  \* local of DeployerAgent.run ("unset" before line 72)
    dfail,            \* message of the failure return being cleaned up
    dout,             \* the AgentOutput DeployerAgent.run returned
    dlog,             \* _run_cmd calls of the current run, in order
    wrote,            \* resolved paths touched by _apply_changes in this run
    fs0,              \* the file system when the current run started
    \* ---- submissions, vector store, ledger ----
    status,           \* reference -> Feedback.status
    vstore,           \* references that have a record in the vector store
    emb,              \* reference -> the embedding of its content
    ledger,           \* content of the budget file
    today,            \* current UTC day number (day 0 is a Monday)
    \* ---- run_batch (batch.py) ----
    pc,               \* position inside run_batch ("idle": not running)
    pending,          \* pending_refs of the current run
    clusters,         \* clusters returned by the cluster agent
    tasks,            \* tasks returned by the prioritiser
    taskIdx,          \* index of the task the for loop is at
    attempts,         \* local of run_batch
    approved,         \* local of run_batch
    writer_data,      \* local of run_batch
    reviewer_feedback,\* local of run_batch
    task_detail,      \* local of run_batch
    summary,          \* the summary dict of the current (or last) run
    batches,          \* number of run_batch executions started
    \* ---- observations of the current run ----
    calls,            \* agent calls made for the current task, in order
    gate,             \* results of run_batch's own check_budget() gates
    lastUpdate,       \* the rows written by the latest _update_status
    lastWrite,        \* data of the latest successful write of the current task
    agent_tokens,     \* sum of tokens_used over the agent outputs of this run
    backfill,         \* store_feedback_embedding calls of _backfill_embeddings
    \* ---- the ledger on its own (budget.py) ----
    lastOp,           \* the latest paid operation or ledger call, as observed
    spend,            \* day -> cost credited by record_usage on that day
    lops,             \* number of ledger operations made so far
    wpc,              \* position of the process inside record_usage
    wdata,            \* the dict record_usage is about to save
    wold,             \* the ledger before the record_usage in progress
    seen,             \* what a check_budget() of another process returned
    \* ---- ClusterAgent on its own (cluster_agent.py) ----
    cpc,              \* position inside ClusterAgent.run
    ci,               \* index i of the for loop of _cluster_by_similarity
    cclustered,       \* local set clustered
    cacc,             \* local list clusters
    clast,            \* the latest loop iteration, as observed
    crank,            \* the store's order among equally distant items
    cfailing,         \* seeds whose similarity query raises
    \* ---- intake (backend/app/router_feedback.py) ----
    feedback,         \* the committed rows of table feedback, by id
    ireq,             \* request -> position and locals of create_feedback
    dbwriter,         \* the request whose transaction holds the store's write lock
    icalls            \* the store_feedback_embedding calls made by intake

dvars == <<fs, repo, dpc, dchanges, original_branch, dfail, dout, dlog, wrote,
           fs0>>

bvars == <<status, vstore, emb, ledger, today, pc, pending, clusters,
           tasks, taskIdx, attempts, approved, writer_data, reviewer_feedback,
           task_detail, summary, batches, calls, gate, lastUpdate, lastWrite,
           agent_tokens, backfill>>

ivars == <<feedback, ireq, dbwriter, icalls>>

xvars == <<lastOp, spend, lops, wpc, wdata, wold, seen, cpc, ci, cclustered,
           cacc, clast, crank, cfailing, feedback, ireq, dbwriter, icalls>>

vars == <<fs, repo, dpc, dchanges, original_branch, dfail, dout, dlog, wrote,
          fs0, status, vstore, emb, ledger, today, pc, pending,
          clusters, tasks, taskIdx, attempts, approved, writer_data,
          reviewer_feedback, task_detail, summary, batches, calls, gate,
          lastUpdate, lastWrite, agent_tokens, backfill, lastOp, spend, lops, wpc, wdata, wold, seen,
          cpc, ci, cclustered, cacc, clast, crank, cfailing, feedback, ireq,
          dbwriter, icalls>>

-----------------------------------------------------------------------------
(* Bounds *)

MaxChanges == 2
NumRefs == 2
MaxBatches == 2

-----------------------------------------------------------------------------
(* Paths: pathlib joining, resolution and containment *)

Absent == "absent"
NonStr == "nonstr"

Root == <<"repo">>

RelPath(parts) == [abs |-> FALSE, parts |-> parts]
AbsPath(parts) == [abs |-> TRUE, parts |-> parts]

\* root / change["path"]: an absolute right operand replaces the left one.
JoinPath(root, p) == IF p.abs THEN p.parts ELSE root \o p.parts

RECURSIVE Normalize(_, _)
Normalize(parts, acc) ==
    IF parts = <<>> THEN acc
    ELSE IF Head(parts) = ".."
         THEN Normalize(Tail(parts),
                        IF acc = <<>> THEN acc ELSE SubSeq(acc, 1, Len(acc) - 1))
         ELSE Normalize(Tail(parts), Append(acc, Head(parts)))

\* (root / path).resolve()
ResolvePath(root, p) == Normalize(JoinPath(root, p), <<>>)

IsRelativeToMutant(path, root) == TRUE

\* path.is_relative_to(root)
IsRelativeTo(path, root) ==
    /\ Len(path) >= Len(root)
    /\ SubSeq(path, 1, Len(root)) = root

InsideSlots == {<<"repo", "a">>}
OutsideSlots == {<<"x">>}
FileSlots == InsideSlots \cup OutsideSlots

PathChoices == {RelPath(<<"a">>), RelPath(<<"..", "x">>),
                RelPath(<<"..", "repo", "a">>), AbsPath(<<"x">>)}

Contents == {"v0", "v1"}

\* FileChange dicts as _parse_writer_response lets them through: path and
\* action are present, content may be any JSON value.
FileChanges ==
    [path : PathChoices, action : {"create", "modify"}, content : {"v1", NonStr}]
    \cup [path : PathChoices, action : {"delete", "rename"}, content : {"v1"}]

RECURSIVE SeqsUpTo(_, _)
SeqsUpTo(S, n) ==
    IF n = 0 THEN {<<>>}
    ELSE LET shorter == SeqsUpTo(S, n - 1)
         IN  shorter \cup {Append(s, x) : s \in {t \in shorter : Len(t) = n - 1}, x \in S}

ChangeLists == SeqsUpTo(FileChanges, MaxChanges)

\* The part of the file system under repo_path, as git sees it.
TreeOf(f) == [s \in InsideSlots |-> f[s]]

-----------------------------------------------------------------------------
(* DeployerAgent._apply_changes *)

\* One iteration of the loop of _apply_changes on file system f.  oserr says
\* whether the operating system refuses this file operation.
\* result: "ok" (next change), "fail" (return success=False),
\*         "raise" (an exception other than OSError leaves the method).
ApplyOne(change, f, oserr) ==
    LET path == ResolvePath(Root, change.path)
        same == [result |-> "ok", fs |-> f, touched |-> {}, error |-> "none"]
    IN  IF ~IsRelativeTo(path, Root)
        THEN [same EXCEPT !.result = "fail", !.error = "escape"]
        ELSE IF change.action = "create"
        THEN IF change.content = NonStr
             THEN [same EXCEPT !.result = "raise", !.error = "type"]
             ELSE IF oserr
             THEN [same EXCEPT !.result = "fail", !.error = "oserror"]
             ELSE [same EXCEPT !.fs = [f EXCEPT ![path] = change.content],
                               !.touched = {path}]
        ELSE IF change.action = "modify"
        THEN IF f[path] = Absent
             THEN [same EXCEPT !.result = "fail", !.error = "missing"]
             ELSE IF change.content = NonStr
             THEN [same EXCEPT !.result = "raise", !.error = "type"]
             ELSE IF oserr
             THEN [same EXCEPT !.result = "fail", !.error = "oserror"]
             ELSE [same EXCEPT !.fs = [f EXCEPT ![path] = change.content],
                               !.touched = {path}]
        ELSE IF change.action = "delete"
        THEN IF f[path] = Absent
             THEN same
             ELSE IF oserr
             THEN [same EXCEPT !.result = "fail", !.error = "oserror"]
             ELSE [same EXCEPT !.fs = [f EXCEPT ![path] = Absent],
                               !.touched = {path}]
        ELSE [same EXCEPT !.result = "fail", !.error = "unknown_action"]

RECURSIVE ApplyFrom(_, _, _, _, _)
ApplyFrom(changes, i, f, touched, oserrAt) ==
    IF i > Len(changes)
    THEN [result |-> "ok", fs |-> f, touched |-> touched, error |-> "none"]
    ELSE LET r == ApplyOne(changes[i], f, oserrAt = i)
         IN  IF r.result = "ok"
             THEN ApplyFrom(changes, i + 1, r.fs, touched \cup r.touched, oserrAt)
             ELSE [r EXCEPT !.touched = touched]

\* _apply_changes(changes, repo_path); oserrAt is the index of the change
\* whose file operation raises OSError (0: none does).
ApplyChanges(changes, f, oserrAt) == ApplyFrom(changes, 1, f, {}, oserrAt)

-----------------------------------------------------------------------------
(* The git repository as the deployer's commands see it *)

HeadTree(r) == IF r.head = "main" THEN r.mainTree ELSE r.featTree

BranchTree(r, b) == IF b = "main" THEN r.mainTree ELSE r.featTree

SetTree(f, t) == [s \in FileSlots |-> IF s \in InsideSlots THEN t[s] ELSE f[s]]

IsCleanMutant(f, r) == TRUE

\* git status --porcelain prints nothing
IsClean(f, r) == TreeOf(f) = HeadTree(r)

\* git checkout <b>: a clean tree takes the files of b; local changes are
\* carried over when both branches hold the same files; otherwise git refuses.
GitCheckout(f, r, b) ==
    IF b = "feature" /\ ~r.feature THEN [fs |-> f, repo |-> r]
    ELSE IF IsClean(f, r)
    THEN [fs |-> SetTree(f, BranchTree(r, b)), repo |-> [r EXCEPT !.head = b]]
    ELSE IF HeadTree(r) = BranchTree(r, b)
    THEN [fs |-> f, repo |-> [r EXCEPT !.head = b]]
    ELSE [fs |-> f, repo |-> r]

\* git checkout -b agent/<hex>
GitCheckoutNew(r) ==
    [r EXCEPT !.feature = TRUE, !.featTree = HeadTree(r), !.head = "feature"]

\* git branch -D / -d agent/<hex>: git refuses to delete the checked-out branch.
GitBranchDelete(r) ==
    IF r.head = "feature" THEN r ELSE [r EXCEPT !.feature = FALSE]

\* git add -A; git commit: the commit holds the working tree.
GitCommit(f, r) ==
    IF r.head = "feature" THEN [r EXCEPT !.featTree = TreeOf(f)]
    ELSE [r EXCEPT !.mainTree = TreeOf(f)]

\* git merge --no-ff agent/<hex> while on the snapshot branch.
GitMerge(f, r) ==
    [fs |-> SetTree(f, r.featTree),
     repo |-> [r EXCEPT !.mainTree = r.featTree, !.merges = r.merges + 1]]

-----------------------------------------------------------------------------
(* DeployerAgent.run, one action per subprocess call *)

\* The ways a subprocess call can end. Inside a whole run_batch the model lets
\* only the project's scripts run into the timeout; the deployer on its own and
\* the deploy branch of one task let every command do so.
Scripts == {"pipeline.sh", "deploy.sh"}

Outcomes(cmd, all) ==
    IF pc = "deploying" /\ batches > 0 /\ cmd \notin Scripts
    THEN all \ {"timeout"} ELSE all

NoOutput == [success |-> FALSE, deployed |-> FALSE, branch |-> "", message |-> "none",
             tokens_used |-> 0]

Ran(cmd, rc) == dlog' = Append(dlog, [cmd |-> cmd, rc |-> rc])

Return(success, deployed, branch, message) ==
    /\ dpc' = "returned"
    /\ dout' = [success |-> success, deployed |-> deployed,
                branch |-> branch, message |-> message, tokens_used |-> 0]

TimedOutMutant == Return(TRUE, FALSE, "agent", "deploy_failed")

\* subprocess.TimeoutExpired leaves the try block for the handler of line 183.
TimedOut == dpc' = "to_checkout" /\ dout' = dout

\* Lines 37-55: read the input, return at once when there are no changes.
DeployEnter(changes) ==
    /\ dpc \in {"idle", "returned"}
    /\ dchanges' = changes
    /\ original_branch' = "unset"
    /\ dfail' = "none"
    /\ dlog' = <<>>
    /\ wrote' = {}
    /\ fs0' = fs
    /\ IF changes = <<>>
       THEN Return(TRUE, FALSE, "", "no_changes")
       ELSE dpc' = "status" /\ dout' = NoOutput
    /\ UNCHANGED <<fs, repo>>

\* Lines 58-66: git status --porcelain
DStatus ==
    /\ dpc = "status"
    /\ \E rc \in Outcomes("status", {"ok", "timeout"}) :
          /\ Ran("status", rc)
          /\ IF rc = "timeout" THEN TimedOut
             ELSE IF ~IsClean(fs, repo)
             THEN Return(FALSE, FALSE, "", "not_clean")
             ELSE dpc' = "revparse" /\ dout' = dout
    /\ UNCHANGED <<fs, repo, dchanges, original_branch, dfail, wrote, fs0>>
    /\ UNCHANGED bvars
    /\ UNCHANGED xvars

\* Lines 69-72: git rev-parse --abbrev-ref HEAD
DRevParse ==
    /\ dpc = "revparse"
    /\ \E rc \in Outcomes("rev-parse", {"ok", "timeout"}) :
          /\ Ran("rev-parse", rc)
          /\ IF rc = "timeout"
             THEN TimedOut /\ original_branch' = original_branch
             ELSE dpc' = "checkout_b" /\ dout' = dout /\ original_branch' = repo.head
    /\ UNCHANGED <<fs, repo, dchanges, dfail, wrote, fs0>>
    /\ UNCHANGED bvars
    /\ UNCHANGED xvars

\* Lines 74-83: git checkout -b <branch_name>
DCheckoutNew ==
    /\ dpc = "checkout_b"
    /\ \E rc \in Outcomes("checkout -b", {"ok", "fail", "timeout"}), done \in BOOLEAN :
          /\ rc = "ok" => done
          /\ rc = "fail" => ~done
          /\ Ran("checkout -b", rc)
          /\ repo' = IF done THEN GitCheckoutNew(repo) ELSE repo
          /\ IF rc = "timeout" THEN TimedOut
             ELSE IF rc = "fail" THEN Return(FALSE, FALSE, "", "branch_failed")
             ELSE dpc' = "apply" /\ dout' = dout
    /\ UNCHANGED <<fs, dchanges, original_branch, dfail, wrote, fs0>>
    /\ UNCHANGED bvars
    /\ UNCHANGED xvars

\* Lines 85-96 and 197-204: self._apply_changes(changes, repo_path)
DApply ==
    /\ dpc = "apply"
    /\ \E oserrAt \in IF pc = "deploying" THEN {0} ELSE 0..Len(dchanges) :
          LET r == ApplyChanges(dchanges, fs, oserrAt)
          IN  /\ fs' = r.fs
              /\ wrote' = r.touched
              /\ IF r.result = "raise"
                 THEN Return(FALSE, FALSE, "", "unexpected") /\ dfail' = dfail
                 ELSE IF r.result = "fail"
                 THEN dpc' = "fail_checkout" /\ dout' = dout /\ dfail' = "apply_failed"
                 ELSE dpc' = "add" /\ dout' = dout /\ dfail' = dfail
    /\ UNCHANGED <<repo, dchanges, original_branch, dlog, fs0>>
    /\ UNCHANGED bvars
    /\ UNCHANGED xvars

\* Line 99: git add -A
DAdd ==
    /\ dpc = "add"
    /\ \E rc \in Outcomes("add", {"ok", "timeout"}) :
          /\ Ran("add", rc)
          /\ IF rc = "timeout" THEN TimedOut ELSE dpc' = "commit" /\ dout' = dout
    /\ UNCHANGED <<fs, repo, dchanges, original_branch, dfail, wrote, fs0>>
    /\ UNCHANGED bvars
    /\ UNCHANGED xvars

\* Lines 100-104: git commit; with nothing staged git exits non-zero.
DCommit ==
    /\ dpc = "commit"
    /\ \E rc \in Outcomes("commit", {"ok", "fail", "timeout"}), done \in BOOLEAN :
          /\ rc = "ok" => done /\ ~IsClean(fs, repo)
          /\ rc = "fail" => ~done
          /\ done => ~IsClean(fs, repo)
          /\ Ran("commit", rc)
          /\ repo' = IF done THEN GitCommit(fs, repo) ELSE repo
          /\ IF rc = "timeout" THEN TimedOut /\ dfail' = dfail
             ELSE IF rc = "fail"
             THEN dpc' = "fail_checkout" /\ dout' = dout /\ dfail' = "commit_failed"
             ELSE dpc' = "pipeline" /\ dout' = dout /\ dfail' = dfail
    /\ UNCHANGED <<fs, dchanges, original_branch, wrote, fs0>>
    /\ UNCHANGED bvars
    /\ UNCHANGED xvars

DPipelineMutant ==
    /\ dpc = "pipeline"
    /\ \E rc \in Outcomes("pipeline.sh", {"ok", "fail", "timeout"}) :
          /\ Ran("pipeline.sh", rc)
          /\ IF rc = "timeout" THEN TimedOut /\ dfail' = dfail
             ELSE dpc' = "checkout_main" /\ dout' = dout /\ dfail' = dfail
    /\ UNCHANGED <<fs, repo, dchanges, original_branch, wrote, fs0>>
    /\ UNCHANGED bvars
    /\ UNCHANGED xvars

\* Lines 114-120: bash scripts/pipeline.sh
DPipeline ==
    /\ dpc = "pipeline"
    /\ \E rc \in Outcomes("pipeline.sh", {"ok", "fail", "timeout"}) :
          /\ Ran("pipeline.sh", rc)
          /\ IF rc = "timeout" THEN TimedOut /\ dfail' = dfail
             ELSE IF rc = "fail"
             THEN dpc' = "fail_checkout" /\ dout' = dout /\ dfail' = "pipeline_failed"
             ELSE dpc' = "checkout_main" /\ dout' = dout /\ dfail' = dfail
    /\ UNCHANGED <<fs, repo, dchanges, original_branch, wrote, fs0>>
    /\ UNCHANGED bvars
    /\ UNCHANGED xvars

\* Lines 89, 105, 123: git checkout <original_branch> on a failure path
DFailCheckout ==
    /\ dpc = "fail_checkout"
    /\ \E rc \in Outcomes("checkout", {"ok", "timeout"}), done \in BOOLEAN :
          /\ rc = "ok" => done
          /\ Ran("checkout", rc)
          /\ LET g == GitCheckout(fs, repo, original_branch)
             IN  /\ fs' = IF done THEN g.fs ELSE fs
                 /\ repo' = IF done THEN g.repo ELSE repo
          /\ IF rc = "timeout" THEN TimedOut ELSE dpc' = "fail_branch_D" /\ dout' = dout
    /\ UNCHANGED <<dchanges, original_branch, dfail, wrote, fs0>>
    /\ UNCHANGED bvars
    /\ UNCHANGED xvars

\* Lines 90-96, 106-112, 124-135: git branch -D <branch_name>, then return
DFailBranchDelete ==
    /\ dpc = "fail_branch_D"
    /\ \E rc \in Outcomes("branch -D", {"ok", "timeout"}), done \in BOOLEAN :
          /\ rc = "ok" => done
          /\ Ran("branch -D", rc)
          /\ repo' = IF done THEN GitBranchDelete(repo) ELSE repo
          /\ IF rc = "timeout" THEN TimedOut
             ELSE Return(FALSE, FALSE, "agent", dfail)
    /\ UNCHANGED <<fs, dchanges, original_branch, dfail, wrote, fs0>>
    /\ UNCHANGED bvars
    /\ UNCHANGED xvars

\* Line 139: git checkout <original_branch> before the merge
DCheckoutMain ==
    /\ dpc = "checkout_main"
    /\ \E rc \in Outcomes("checkout", {"ok", "timeout"}), done \in BOOLEAN :
          /\ rc = "ok" => done
          /\ Ran("checkout", rc)
          /\ LET g == GitCheckout(fs, repo, original_branch)
             IN  /\ fs' = IF done THEN g.fs ELSE fs
                 /\ repo' = IF done THEN g.repo ELSE repo
          /\ IF rc = "timeout" THEN TimedOut ELSE dpc' = "merge" /\ dout' = dout
    /\ UNCHANGED <<dchanges, original_branch, dfail, wrote, fs0>>
    /\ UNCHANGED bvars
    /\ UNCHANGED xvars

\* Lines 140-145: git merge --no-ff <branch_name>
DMerge ==
    /\ dpc = "merge"
    /\ \E rc \in Outcomes("merge", {"ok", "fail", "timeout"}), done \in BOOLEAN :
          /\ rc = "ok" => done
          /\ rc = "fail" => ~done
          /\ Ran("merge", rc)
          /\ LET g == GitMerge(fs, repo)
             IN  /\ fs' = IF done THEN g.fs ELSE fs
                 /\ repo' = IF done THEN g.repo ELSE repo
          /\ IF rc = "timeout" THEN TimedOut
             ELSE IF rc = "fail" THEN dpc' = "merge_abort" /\ dout' = dout
             ELSE dpc' = "branch_d" /\ dout' = dout
    /\ UNCHANGED <<dchanges, original_branch, dfail, wrote, fs0>>
    /\ UNCHANGED bvars
    /\ UNCHANGED xvars

\* Line 146: git merge --abort
DMergeAbort ==
    /\ dpc = "merge_abort"
    /\ \E rc \in Outcomes("merge --abort", {"ok", "timeout"}) :
          /\ Ran("merge --abort", rc)
          /\ IF rc = "timeout" THEN TimedOut ELSE dpc' = "abort_branch_D" /\ dout' = dout
    /\ UNCHANGED <<fs, repo, dchanges, original_branch, dfail, wrote, fs0>>
    /\ UNCHANGED bvars
    /\ UNCHANGED xvars

\* Lines 147-153: git branch -D <branch_name>, then return the merge failure
DAbortBranchDelete ==
    /\ dpc = "abort_branch_D"
    /\ \E rc \in Outcomes("branch -D", {"ok", "timeout"}), done \in BOOLEAN :
          /\ rc = "ok" => done
          /\ Ran("branch -D", rc)
          /\ repo' = IF done THEN GitBranchDelete(repo) ELSE repo
          /\ IF rc = "timeout" THEN TimedOut
             ELSE Return(FALSE, FALSE, "agent", "merge_failed")
    /\ UNCHANGED <<fs, dchanges, original_branch, dfail, wrote, fs0>>
    /\ UNCHANGED bvars
    /\ UNCHANGED xvars

\* Line 156: git branch -d <branch_name>
DBranchDelete ==
    /\ dpc = "branch_d"
    /\ \E rc \in Outcomes("branch -d", {"ok", "timeout"}), done \in BOOLEAN :
          /\ rc = "ok" => done
          /\ Ran("branch -d", rc)
          /\ repo' = IF done THEN GitBranchDelete(repo) ELSE repo
          /\ IF rc = "timeout" THEN TimedOut ELSE dpc' = "deploy_script" /\ dout' = dout
    /\ UNCHANGED <<fs, dchanges, original_branch, dfail, wrote, fs0>>
    /\ UNCHANGED bvars
    /\ UNCHANGED xvars

DDeployScriptMutant ==
    /\ dpc = "deploy_script"
    /\ \E rc \in Outcomes("deploy.sh", {"ok", "fail", "timeout"}) :
          /\ Ran("deploy.sh", rc)
          /\ IF rc = "timeout" THEN TimedOut
             ELSE IF rc = "ok" THEN Return(TRUE, TRUE, "agent", "merged_deployed")
             ELSE Return(FALSE, FALSE, "agent", "merged_deploy_failed")
    /\ UNCHANGED <<fs, repo, dchanges, original_branch, dfail, wrote, fs0>>
    /\ UNCHANGED bvars
    /\ UNCHANGED xvars

\* Lines 158-181: bash scripts/deploy.sh, then return success
DDeployScript ==
    /\ dpc = "deploy_script"
    /\ \E rc \in Outcomes("deploy.sh", {"ok", "fail", "timeout"}) :
          /\ Ran("deploy.sh", rc)
          /\ IF rc = "timeout" THEN TimedOut
             ELSE IF rc = "ok" THEN Return(TRUE, TRUE, "agent", "merged_deployed")
             ELSE Return(TRUE, FALSE, "agent", "merged_deploy_failed")
    /\ UNCHANGED <<fs, repo, dchanges, original_branch, dfail, wrote, fs0>>
    /\ UNCHANGED bvars
    /\ UNCHANGED xvars

\* Lines 183-187: the timeout handler tries git checkout <original_branch>.
\* A timeout before line 72 leaves original_branch unbound (NameError); that
\* and a second timeout are swallowed by the inner except of line 189.
DTimeoutCheckout ==
    /\ dpc = "to_checkout"
    /\ IF original_branch = "unset"
       THEN /\ Return(FALSE, FALSE, "agent", "timed_out")
            /\ UNCHANGED <<fs, repo, dlog>>
       ELSE \E rc \in Outcomes("checkout", {"ok", "timeout"}), done \in BOOLEAN :
               /\ rc = "ok" => done
               /\ Ran("checkout", rc)
               /\ LET g == GitCheckout(fs, repo, original_branch)
                  IN  /\ fs' = IF done THEN g.fs ELSE fs
                      /\ repo' = IF done THEN g.repo ELSE repo
               /\ IF rc = "timeout"
                  THEN Return(FALSE, FALSE, "agent", "timed_out")
                  ELSE dpc' = "to_branch_D" /\ dout' = dout
    /\ UNCHANGED <<dchanges, original_branch, dfail, wrote, fs0>>
    /\ UNCHANGED bvars
    /\ UNCHANGED xvars

\* Lines 188-196: git branch -D <branch_name> in the timeout handler
DTimeoutBranchDelete ==
    /\ dpc = "to_branch_D"
    /\ \E rc \in Outcomes("branch -D", {"ok", "timeout"}), done \in BOOLEAN :
          /\ rc = "ok" => done
          /\ Ran("branch -D", rc)
          /\ repo' = IF done THEN GitBranchDelete(repo) ELSE repo
    /\ Return(FALSE, FALSE, "agent", "timed_out")
    /\ UNCHANGED <<fs, dchanges, original_branch, dfail, wrote, fs0>>
    /\ UNCHANGED bvars
    /\ UNCHANGED xvars

DeployStep ==
    \/ DStatus \/ DRevParse \/ DCheckoutNew \/ DApply \/ DAdd \/ DCommit
    \/ DPipeline \/ DFailCheckout \/ DFailBranchDelete \/ DCheckoutMain
    \/ DMerge \/ DMergeAbort \/ DAbortBranchDelete \/ DBranchDelete
    \/ DDeployScript \/ DTimeoutCheckout \/ DTimeoutBranchDelete

-----------------------------------------------------------------------------
(* Budget ledger (budget.py); amounts in micro-GBP *)

DAILY_CAP_GBP == 2000000
WEEKLY_CAP_GBP == 8000000
COST_PER_TOKEN_GBP == 12

Max(a, b) == IF a >= b THEN a ELSE b

MondayOfMutant(day) == day - ((day + 1) % 7)

\* _today_str() and _monday_str() as day numbers
MondayOf(day) == day - (day % 7)

\* Python dicts with numeric values: d.get(k, 0.0) and d[k] = v
DictGet(d, k) == IF k \in DOMAIN d THEN d[k] ELSE 0
DictPut(d, k, v) == [x \in DOMAIN d \cup {k} |-> IF x = k THEN v ELSE d[x]]
EmptyDict == [x \in {} |-> 0]

EmptyLedger == [daily |-> EmptyDict, weekly |-> EmptyDict]

\* _load_budget(): a missing or unreadable file reads as an empty ledger.
LoadBudget(file) ==
    IF "daily" \in DOMAIN file THEN file ELSE EmptyLedger

CheckBudgetMutant(file, day) ==
    LET data == LoadBudget(file)
        daily_spent == DictGet(data.daily, day)
        weekly_spent == DictGet(data.weekly, MondayOf(day))
        daily_remaining == DAILY_CAP_GBP - daily_spent
        weekly_remaining == WEEKLY_CAP_GBP - weekly_spent
    IN  [daily_spent |-> daily_spent, daily_remaining |-> daily_remaining,
         daily_cap |-> DAILY_CAP_GBP,
         weekly_spent |-> weekly_spent, weekly_remaining |-> weekly_remaining,
         weekly_cap |-> WEEKLY_CAP_GBP,
         allowed |-> daily_remaining > 0 /\ weekly_remaining > 0]

\* check_budget()
CheckBudget(file, day) ==
    LET data == LoadBudget(file)
        daily_spent == DictGet(data.daily, day)
        weekly_spent == DictGet(data.weekly, MondayOf(day))
        daily_remaining == Max(0, DAILY_CAP_GBP - daily_spent)
        weekly_remaining == Max(0, WEEKLY_CAP_GBP - weekly_spent)
    IN  [daily_spent |-> daily_spent, daily_remaining |-> daily_remaining,
         daily_cap |-> DAILY_CAP_GBP,
         weekly_spent |-> weekly_spent, weekly_remaining |-> weekly_remaining,
         weekly_cap |-> WEEKLY_CAP_GBP,
         allowed |-> daily_remaining > 0 /\ weekly_remaining > 0]

RecordUsageKeyMutant(file, day, tokens) ==
    LET cost == tokens * COST_PER_TOKEN_GBP
        data == LoadBudget(file)
    IN  [daily |-> DictPut(data.daily, day, DictGet(data.daily, day) + cost),
         weekly |-> DictPut(data.weekly, day, DictGet(data.weekly, day) + cost)]

RecordUsageMutant(file, day, tokens) ==
    LET cost == tokens * COST_PER_TOKEN_GBP
        data == LoadBudget(file)
    IN  [daily |-> DictPut(data.daily, day, cost),
         weekly |-> DictPut(data.weekly, MondayOf(day), cost)]

\* record_usage(tokens): the file content after the call
RecordUsage(file, day, tokens) ==
    LET cost == tokens * COST_PER_TOKEN_GBP
        data == LoadBudget(file)
    IN  [daily |-> DictPut(data.daily, day, DictGet(data.daily, day) + cost),
         weekly |-> DictPut(data.weekly, MondayOf(day),
                            DictGet(data.weekly, MondayOf(day)) + cost)]

-----------------------------------------------------------------------------
(* Agent outputs *)

AgentOutput(data, success, message, tokens_used) ==
    [data |-> data, success |-> success, message |-> message,
     tokens_used |-> tokens_used]

PyNone == "<None>"
NoData == [none |-> TRUE]
IsNone(d) == "none" \in DOMAIN d

TruthyMutant(v) == v # ""

\* Python truthiness of a str-or-None value
Truthy(v) == v \notin {PyNone, ""}

-----------------------------------------------------------------------------
(* Vector store and ClusterAgent (cluster_agent.py) *)

Refs == 1..NumRefs

DISTANCE_THRESHOLD == 1
CHROMADB_MAX_RESULTS == 50

Min(a, b) == IF a <= b THEN a ELSE b

\* L2 distance of two one-dimensional embeddings
Distance(a, b) == IF a >= b THEN a - b ELSE b - a

\* The document stored with a reference is the submission's content.
DocOf(r) == [doc |-> r]

Permutations1(S) == {f \in [S -> 1..Cardinality(S)] : \A a, b \in S : a # b => f[a] # f[b]}

\* collection.query(query_embeddings=[vec], n_results=n): the n stored items
\* nearest to vec, nearest first; rank is the store's order among equals.
RECURSIVE NearestFirst(_, _, _, _)
NearestFirst(items, vec, e, rank) ==
    IF items = {} THEN <<>>
    ELSE LET first == CHOOSE x \in items : \A y \in items :
                          \/ Distance(e[x], vec) < Distance(e[y], vec)
                          \/ /\ Distance(e[x], vec) = Distance(e[y], vec)
                             /\ rank[x] <= rank[y]
         IN  <<first>> \o NearestFirst(items \ {first}, vec, e, rank)

Query(store, vec, n, e, rank) ==
    LET all == NearestFirst(store, vec, e, rank)
    IN  SubSeq(all, 1, Min(n, Len(all)))

\* collection.get(ids=pending_refs): the stored ones, in the order asked for
RECURSIVE StoredIds(_, _)
StoredIds(refs, store) ==
    IF refs = <<>> THEN <<>>
    ELSE IF Head(refs) \in store
         THEN <<Head(refs)>> \o StoredIds(Tail(refs), store)
         ELSE StoredIds(Tail(refs), store)

SeqToSet(s) == {s[i] : i \in DOMAIN s}

RECURSIVE WalkResultsAnyIdMutant(_, _, _, _, _, _, _)
WalkResultsAnyIdMutant(results, j, ids, clustered, cluster_refs, vec, e) ==
    IF j > Len(results)
    THEN [cluster_refs |-> cluster_refs, clustered |-> clustered]
    ELSE LET rid == results[j]
         IN  IF rid \notin clustered /\ Distance(e[rid], vec) <= DISTANCE_THRESHOLD
             THEN WalkResultsAnyIdMutant(results, j + 1, ids, clustered \cup {rid},
                                         Append(cluster_refs, rid), vec, e)
             ELSE WalkResultsAnyIdMutant(results, j + 1, ids, clustered,
                                         cluster_refs, vec, e)

RECURSIVE WalkResultsMutant(_, _, _, _, _, _, _)
WalkResultsMutant(results, j, ids, clustered, cluster_refs, vec, e) ==
    IF j > Len(results)
    THEN [cluster_refs |-> cluster_refs, clustered |-> clustered]
    ELSE LET rid == results[j]
         IN  IF rid \in clustered \/ rid \notin SeqToSet(ids)
             THEN WalkResultsMutant(results, j + 1, ids, clustered, cluster_refs, vec, e)
             ELSE WalkResultsMutant(results, j + 1, ids, clustered \cup {rid},
                                    Append(cluster_refs, rid), vec, e)

\* Lines 117-126: walk one query result
RECURSIVE WalkResults(_, _, _, _, _, _, _)
WalkResults(results, j, ids, clustered, cluster_refs, vec, e) ==
    IF j > Len(results)
    THEN [cluster_refs |-> cluster_refs, clustered |-> clustered]
    ELSE LET rid == results[j]
         IN  IF rid \in clustered
             THEN WalkResults(results, j + 1, ids, clustered, cluster_refs, vec, e)
             ELSE IF rid \notin SeqToSet(ids)
             THEN WalkResults(results, j + 1, ids, clustered, cluster_refs, vec, e)
             ELSE IF Distance(e[rid], vec) <= DISTANCE_THRESHOLD
             THEN WalkResults(results, j + 1, ids, clustered \cup {rid},
                              Append(cluster_refs, rid), vec, e)
             ELSE WalkResults(results, j + 1, ids, clustered, cluster_refs, vec, e)

MakeCluster(refs) ==
    [references |-> refs, documents |-> [i \in DOMAIN refs |-> DocOf(refs[i])]]

\* _cluster_by_similarity; failing is the set of seeds whose query raises.
RECURSIVE ClusterFrom(_, _, _, _, _, _, _, _)
ClusterFrom(ids, i, clustered, acc, store, e, rank, failing) ==
    IF i > Len(ids) THEN acc
    ELSE IF ids[i] \in clustered
    THEN ClusterFrom(ids, i + 1, clustered, acc, store, e, rank, failing)
    ELSE IF ids[i] \in failing
    THEN ClusterFrom(ids, i + 1, clustered \cup {ids[i]},
                     Append(acc, MakeCluster(<<ids[i]>>)), store, e, rank, failing)
    ELSE LET results == Query(store, e[ids[i]],
                              Min(Len(ids), CHROMADB_MAX_RESULTS), e, rank)
             w == WalkResults(results, 1, ids, clustered, <<>>, e[ids[i]], e)
         IN  ClusterFrom(ids, i + 1, w.clustered,
                         IF w.cluster_refs # <<>>
                         THEN Append(acc, MakeCluster(w.cluster_refs)) ELSE acc,
                         store, e, rank, failing)

ClusterBySimilarity(ids, store, e, rank, failing) ==
    ClusterFrom(ids, 1, {}, <<>>, store, e, rank, failing)

\* clusters.sort(key=len(references), reverse=True): stable, largest first
RECURSIVE InsertBySize(_, _)
InsertBySize(sorted, c) ==
    IF sorted = <<>> THEN <<c>>
    ELSE IF Len(Head(sorted).references) >= Len(c.references)
         THEN <<Head(sorted)>> \o InsertBySize(Tail(sorted), c)
         ELSE <<c>> \o sorted

RECURSIVE SortBySize(_)
SortBySize(cs) ==
    IF cs = <<>> THEN <<>>
    ELSE InsertBySize(SortBySize(SubSeq(cs, 1, Len(cs) - 1)), cs[Len(cs)])

\* ClusterAgent.run; getFails: collection.get raises.
ClusterRun(pending_refs, store, e, rank, failing, getFails) ==
    IF pending_refs = <<>>
    THEN AgentOutput([clusters |-> <<>>], TRUE, "No pending submissions to cluster", 0)
    ELSE IF getFails
    THEN AgentOutput([clusters |-> <<>>], FALSE, "ChromaDB query failed", 0)
    ELSE LET ids == StoredIds(pending_refs, store)
         IN  IF ids = <<>>
             THEN AgentOutput([clusters |-> <<>>], TRUE, "No embeddings found", 0)
             ELSE AgentOutput(
                      [clusters |-> SortBySize(ClusterBySimilarity(ids, store, e, rank, failing))],
                      TRUE, "Clustered", 0)

-----------------------------------------------------------------------------
(* PrioritiserAgent (prioritiser_agent.py) *)

ESTIMATED_TOKENS_PER_SUMMARY == 500

\* What the chat back-end does for one summarisation call: down, or up with
\* the token counts it reports (0: none reported).
SummaryOutcomes == {[up |-> FALSE, tokens |-> 0], [up |-> TRUE, tokens |-> 3000]}

SummariseClusterMutant(documents, outcome) ==
    IF outcome.up
    THEN [summary |-> [kind |-> "llm", n |-> 0],
          tokens |-> IF outcome.tokens = 0 THEN ESTIMATED_TOKENS_PER_SUMMARY
                     ELSE outcome.tokens]
    ELSE [summary |-> [kind |-> "fallback", n |-> Len(documents)],
          tokens |-> ESTIMATED_TOKENS_PER_SUMMARY]

\* _summarise_cluster
SummariseCluster(documents, outcome) ==
    IF outcome.up
    THEN [summary |-> [kind |-> "llm", n |-> 0],
          tokens |-> IF outcome.tokens = 0 THEN ESTIMATED_TOKENS_PER_SUMMARY
                     ELSE outcome.tokens]
    ELSE [summary |-> [kind |-> "fallback", n |-> Len(documents)], tokens |-> 0]

\* Lines 53-75: the loop over the clusters
RECURSIVE PrioritiseFrom(_, _, _, _, _, _, _)
PrioritiseFrom(cs, i, acc, total, file, day, outcomes) ==
    IF i > Len(cs) THEN [tasks |-> acc, total |-> total, file |-> file]
    ELSE IF CheckBudget(file, day).daily_remaining
                < ESTIMATED_TOKENS_PER_SUMMARY * COST_PER_TOKEN_GBP
    THEN [tasks |-> acc, total |-> total, file |-> file]
    ELSE LET s == SummariseCluster(cs[i].documents, outcomes[i])
             file2 == IF s.tokens > 0 THEN RecordUsage(file, day, s.tokens) ELSE file
             task == [references |-> cs[i].references,
                      documents |-> cs[i].documents,
                      summary |-> s.summary,
                      cluster_size |-> Len(cs[i].references)]
         IN  PrioritiseFrom(cs, i + 1, Append(acc, task), total + s.tokens,
                            file2, day, outcomes)

PrioritiserRunMutant(cs, file, day, outcomes) ==
    IF cs = <<>>
    THEN [out |-> AgentOutput([tasks |-> <<>>], TRUE, "No clusters provided", 0),
          file |-> file]
    ELSE LET r == PrioritiseFrom(cs, 1, <<>>, 0, file, day, outcomes)
         IN  [out |-> AgentOutput([tasks |-> r.tasks], TRUE, "Prioritised", r.total),
              file |-> r.file]

\* PrioritiserAgent.run: the output and the ledger file afterwards
PrioritiserRun(cs, file, day, outcomes) ==
    IF cs = <<>>
    THEN [out |-> AgentOutput([tasks |-> <<>>], TRUE, "No clusters provided", 0),
          file |-> file]
    ELSE IF ~CheckBudget(file, day).allowed
    THEN [out |-> AgentOutput([tasks |-> <<>>], TRUE, "Budget exhausted", 0),
          file |-> file]
    ELSE LET r == PrioritiseFrom(cs, 1, <<>>, 0, file, day, outcomes)
         IN  [out |-> AgentOutput([tasks |-> r.tasks], TRUE, "Prioritised", r.total),
              file |-> r.file]

-----------------------------------------------------------------------------
(* WriterAgent and ReviewerAgent (writer_agent.py, reviewer_agent.py) *)

WriterTokens == 54000
ReviewerTokens == 2000

\* Change sets the paid model answers with in the batch model
WriterMenu ==
    {[changes |-> <<>>, summary |-> "w0", reasoning |-> "r"],
     [changes |-> <<[path |-> RelPath(<<"a">>), action |-> "modify", content |-> "v1"]>>,
      summary |-> "w1", reasoning |-> "r"]}

EmptyWriterOutput == [changes |-> <<>>, summary |-> "", reasoning |-> ""]

\* What the paid back-end does for a write call
WriterOutcomes ==
    {[kind |-> "api_error", data |-> EmptyWriterOutput],
     [kind |-> "unparsable", data |-> EmptyWriterOutput]}
    \cup {[kind |-> "ok", data |-> d] : d \in WriterMenu}

WriterRunMutant(task, context, file, day, outcome) ==
    IF ~CheckBudget(file, day).allowed
    THEN [out |-> AgentOutput(EmptyWriterOutput, FALSE, "Budget exhausted", 0),
          file |-> file]
    ELSE IF outcome.kind \in {"api_error", "unparsable"}
    THEN [out |-> AgentOutput(EmptyWriterOutput, FALSE,
                              IF outcome.kind = "api_error" THEN "Anthropic API error"
                              ELSE "Failed to parse", 0),
          file |-> file]
    ELSE [out |-> AgentOutput(outcome.data, TRUE, "Generated", WriterTokens),
          file |-> RecordUsage(file, day, WriterTokens)]

\* WriterAgent.run: the output and the ledger file afterwards
WriterRun(task, context, file, day, outcome) ==
    IF ~CheckBudget(file, day).allowed
    THEN [out |-> AgentOutput(EmptyWriterOutput, FALSE, "Budget exhausted", 0),
          file |-> file]
    ELSE IF outcome.kind = "api_error"
    THEN [out |-> AgentOutput(EmptyWriterOutput, FALSE, "Anthropic API error", 0),
          file |-> file]
    ELSE IF outcome.kind = "unparsable"
    THEN [out |-> AgentOutput(EmptyWriterOutput, FALSE, "Failed to parse", WriterTokens),
          file |-> RecordUsage(file, day, WriterTokens)]
    ELSE [out |-> AgentOutput(outcome.data, TRUE, "Generated", WriterTokens),
          file |-> RecordUsage(file, day, WriterTokens)]

CommentChoices == {"", "c1"}

\* What the paid back-end does for a review call
ReviewerOutcomes ==
    {[kind |-> "api_error", verdict |-> "reject", comments |-> "API error"],
     [kind |-> "unparsable", verdict |-> "reject", comments |-> "Failed to parse review"],
     [kind |-> "ok", verdict |-> "approve", comments |-> "c1"]}
    \cup {[kind |-> "ok", verdict |-> "reject", comments |-> c] : c \in CommentChoices}

Review(verdict, comments) == [verdict |-> verdict, comments |-> comments, issues |-> <<>>]

\* ReviewerAgent.run: the output and the ledger file afterwards
ReviewerRun(data, file, day, outcome) ==
    IF ~CheckBudget(file, day).allowed
    THEN [out |-> AgentOutput(Review("reject", "Budget exhausted"), FALSE,
                              "Budget exhausted", 0),
          file |-> file]
    ELSE IF data.changes = <<>>
    THEN [out |-> AgentOutput(Review("approve", "No changes to review"), TRUE,
                              "auto-approved", 0),
          file |-> file]
    ELSE IF outcome.kind = "api_error"
    THEN [out |-> AgentOutput(Review("reject", outcome.comments), FALSE,
                              "Anthropic API error", 0),
          file |-> file]
    ELSE IF outcome.kind = "unparsable"
    THEN [out |-> AgentOutput(Review("reject", outcome.comments), FALSE,
                              "Failed to parse", ReviewerTokens),
          file |-> RecordUsage(file, day, ReviewerTokens)]
    ELSE [out |-> AgentOutput(Review(outcome.verdict, outcome.comments), TRUE,
                              "Review complete", ReviewerTokens),
          file |-> RecordUsage(file, day, ReviewerTokens)]

-----------------------------------------------------------------------------
(* run_batch (batch.py), one action per stretch of code between agent calls *)

max_writer_retries == 2

Cfg == [max_writer_retries |-> max_writer_retries, repo_path |-> "repo"]

NoNote == [kind |-> "none", n |-> 0, text |-> ""]
NoteMutant(kind, n, text) == [kind |-> kind, n |-> max_writer_retries + 1, text |-> text]

\* agent_notes as the f-strings of lines 252, 261 and 268-270 build it: which
\* text it starts with, the attempt count put into it, and the variable part
Note(kind, n, text) == [kind |-> kind, n |-> n, text |-> text]

NoBudget == [none |-> TRUE]
NoTaskDetail == [references |-> <<>>, summary |-> [kind |-> "none", n |-> 0],
                 outcome |-> "pending", tokens |-> 0]

EmptySummary ==
    [tasks_attempted |-> 0, tasks_completed |-> 0, tasks_failed |-> 0,
     total_tokens |-> 0, budget_remaining |-> NoBudget, details |-> <<>>]

AddTokensMutant(s, out) == s

\* summary["total_tokens"] += output.tokens_used
AddTokens(s, out) == [s EXCEPT !.total_tokens = @ + out.tokens_used]

GetPendingStaleMutant(st) ==
    LET F[i \in 0..NumRefs] ==
            IF i = 0 THEN <<>>
            ELSE IF st[i] \in {"pending", "in_progress"}
                 THEN Append(F[i - 1], i) ELSE F[i - 1]
    IN  F[NumRefs]

GetPendingMutant(st) ==
    LET F[i \in 0..NumRefs] ==
            IF i = 0 THEN <<>>
            ELSE IF st[i] # "rejected" THEN Append(F[i - 1], i) ELSE F[i - 1]
    IN  F[NumRefs]

\* _get_pending_submissions: the pending rows, oldest first (ids grow with
\* created_at)
GetPendingSubmissions(st) ==
    LET F[i \in 0..NumRefs] ==
            IF i = 0 THEN <<>>
            ELSE IF st[i] = "pending" THEN Append(F[i - 1], i) ELSE F[i - 1]
    IN  F[NumRefs]

UpdateStatusNoReturnMutant(references, new, agent_notes) ==
    LET rows == IF new = "pending" THEN {} ELSE SeqToSet(references) \cap Refs
    IN  /\ status' = [r \in Refs |-> IF r \in rows THEN new ELSE status[r]]
        /\ lastUpdate' = {[ref |-> r, old |-> status[r], new |-> new,
                            agent_notes |-> agent_notes] : r \in rows}

UpdateStatusMutant(references, new, agent_notes) ==
    /\ status' = [r \in Refs |-> new]
    /\ lastUpdate' = {[ref |-> r, old |-> status[r], new |-> new,
                        agent_notes |-> agent_notes] : r \in Refs}

\* _update_status(session, references, status, agent_notes). The pipeline only
\* writes agent_notes, so the model keeps the notes of the latest write rather
\* than the column.
UpdateStatus(references, new, agent_notes) ==
    LET rows == SeqToSet(references) \cap Refs
    IN  /\ status' = [r \in Refs |-> IF r \in rows THEN new ELSE status[r]]
        /\ lastUpdate' = {[ref |-> r, old |-> status[r], new |-> new,
                            agent_notes |-> agent_notes] : r \in rows}

GateOpenMutant(budget) == TRUE

\* Lines 122 and 181: if not budget["allowed"]
GateOpen(budget) == budget.allowed

WriterFailedMutant(out) == FALSE

\* Line 216: if not writer_output.success
WriterFailed(out) == ~out.success

LoopContinuesMutant(n) == TRUE

\* Line 203: while attempts <= max_retries
LoopContinues(n) == n <= max_writer_retries

ShouldDeployMutant(ok, data) == ~IsNone(data)

\* Line 245: if approved and writer_data
ShouldDeploy(ok, data) == ok /\ ~IsNone(data)

\* Leaving run_batch with the summary (lines 124-125, 134-137, 154-157,
\* 170-173, 281-297)
BatchReturnValue(sum, file) ==
    [sum EXCEPT !.budget_remaining = CheckBudget(file, today)]

BatchReturn(sum, file) ==
    /\ summary' = BatchReturnValue(sum, file)
    /\ pc' = "idle"

\* What store_feedback_embedding returns for each submission of a backfill:
\* true for all, or false for the oldest (no embedding generated, or the
\* upsert raised)
StoreResults(submissions) ==
    {[i \in 1..Len(submissions) |-> TRUE], [i \in 1..Len(submissions) |-> i # 1]}

RECURSIVE BackfillFromMutant(_, _, _, _)
BackfillFromMutant(submissions, i, results, acc) ==
    IF i > Len(submissions) \/ (i > 1 /\ ~results[i - 1]) THEN acc
    ELSE BackfillFromMutant(submissions, i + 1, results,
                            Append(acc, [reference |-> submissions[i],
                                         ok |-> results[i]]))

\* Lines 76-79: the loop of _backfill_embeddings from submission i on
RECURSIVE BackfillFrom(_, _, _, _)
BackfillFrom(submissions, i, results, acc) ==
    IF i > Len(submissions) THEN acc
    ELSE BackfillFrom(submissions, i + 1, results,
                      Append(acc, [reference |-> submissions[i],
                                   ok |-> results[i]]))

\* _backfill_embeddings: the store calls in order, the references upserted
\* and the count returned
BackfillEmbeddings(submissions, results) ==
    LET stores == BackfillFrom(submissions, 1, results, <<>>)
        stored == {stores[k].reference : k \in {j \in DOMAIN stores : stores[j].ok}}
    IN  [stores |-> stores, stored |-> stored, backfilled |-> Cardinality(stored)]

\* Lines 107-145: initial budget gate, pending query, embedding backfill
BatchStart ==
    /\ pc = "idle"
    /\ batches < MaxBatches
    /\ batches' = batches + 1
    /\ LET budget == CheckBudget(ledger, today)
           found == GetPendingSubmissions(status)
       IN  /\ gate' = <<budget.allowed>>
           /\ IF ~GateOpen(budget)
              THEN /\ BatchReturn(EmptySummary, ledger)
                   /\ pending' = <<>> /\ vstore' = vstore /\ backfill' = <<>>
              ELSE IF found = <<>>
              THEN /\ BatchReturn(EmptySummary, ledger)
                   /\ pending' = <<>> /\ vstore' = vstore /\ backfill' = <<>>
              ELSE /\ pending' = found
                   /\ \E results \in StoreResults(found) :
                         LET b == BackfillEmbeddings(found, results)
                         IN  /\ backfill' = b.stores
                             /\ vstore' = vstore \cup b.stored
                   /\ summary' = EmptySummary
                   /\ pc' = "cluster"
    /\ clusters' = <<>>
    /\ tasks' = <<>>
    /\ taskIdx' = 1
    /\ attempts' = 0
    /\ approved' = FALSE
    /\ writer_data' = NoData
    /\ reviewer_feedback' = PyNone
    /\ task_detail' = NoTaskDetail
    /\ calls' = <<>>
    /\ lastUpdate' = {}
    /\ lastWrite' = NoData
    /\ UNCHANGED <<status, emb, ledger, today>>
    /\ UNCHANGED dvars
    /\ agent_tokens' = 0
    /\ UNCHANGED xvars

\* Lines 147-160: the cluster agent
BatchCluster ==
    /\ pc = "cluster"
    /\ \E rank \in Permutations1(Refs), failing \in SUBSET SeqToSet(pending),
          getFails \in BOOLEAN :
          LET out == ClusterRun(pending, vstore, emb, rank, failing, getFails)
          IN  /\ agent_tokens' = agent_tokens + out.tokens_used
              /\ IF ~out.success
                 THEN BatchReturn(summary, ledger) /\ clusters' = <<>>
                 ELSE /\ clusters' = out.data.clusters
                      /\ summary' = AddTokens(summary, out)
                      /\ pc' = "prioritise"
    /\ UNCHANGED <<status, vstore, emb, ledger, today, pending, tasks,
                   taskIdx, attempts, approved, writer_data, reviewer_feedback,
                   task_detail, batches, calls, gate, lastUpdate, lastWrite>>
    /\ UNCHANGED dvars
    /\ UNCHANGED xvars
    /\ backfill' = <<>>

\* Lines 162-176: the prioritiser
BatchPrioritise ==
    /\ pc = "prioritise"
    /\ \E outcome \in SummaryOutcomes :
          LET outcomes == [i \in 1..Len(clusters) |-> outcome]
              r == PrioritiserRun(clusters, ledger, today, outcomes)
              sum == AddTokens(summary, r.out)
          IN  /\ ledger' = r.file
              /\ agent_tokens' = agent_tokens + r.out.tokens_used
              /\ tasks' = r.out.data.tasks
              /\ IF r.out.data.tasks = <<>>
                 THEN BatchReturn(sum, r.file)
                 ELSE summary' = sum /\ pc' = "task"
    /\ taskIdx' = 1
    /\ UNCHANGED <<status, vstore, emb, today, pending, clusters,
                   attempts, approved, writer_data, reviewer_feedback,
                   task_detail, batches, calls, gate, lastUpdate, lastWrite>>
    /\ UNCHANGED dvars
    /\ UNCHANGED xvars
    /\ UNCHANGED backfill

\* Lines 178-201: budget gate of the task, mark its references in_progress
BatchTaskBegin ==
    /\ pc = "task"
    /\ taskIdx <= Len(tasks)
    /\ LET budget == CheckBudget(ledger, today)
           task == tasks[taskIdx]
       IN  /\ gate' = Append(gate, budget.allowed)
           /\ IF ~GateOpen(budget)
              THEN /\ BatchReturn(summary, ledger)
                   /\ UNCHANGED <<status, lastUpdate, task_detail, attempts,
                                  approved, writer_data, reviewer_feedback, calls,
                                  lastWrite>>
              ELSE /\ task_detail' = [references |-> task.references,
                                      summary |-> task.summary,
                                      outcome |-> "pending", tokens |-> 0]
                   /\ summary' = [summary EXCEPT !.tasks_attempted = @ + 1]
                   /\ UpdateStatus(task.references, "in_progress", NoNote)
                   /\ approved' = FALSE
                   /\ writer_data' = NoData
                   /\ reviewer_feedback' = PyNone
                   /\ attempts' = 0
                   /\ calls' = <<>>
                   /\ lastWrite' = NoData
                   /\ pc' = "write"
    /\ UNCHANGED <<vstore, emb, ledger, today, pending, clusters, tasks, taskIdx,
                   batches>>
    /\ UNCHANGED dvars
    /\ UNCHANGED agent_tokens
    /\ UNCHANGED xvars
    /\ UNCHANGED backfill

\* Lines 203-221: one writer call of the retry loop
BatchWrite ==
    /\ pc = "write"
    /\ attempts' = attempts + 1
    /\ \E outcome \in WriterOutcomes :
          LET writer_context ==
                  IF Truthy(reviewer_feedback)
                  THEN [reviewer_feedback |-> reviewer_feedback] @@ Cfg
                  ELSE Cfg
              r == WriterRun(tasks[taskIdx], writer_context, ledger, today, outcome)
          IN  /\ ledger' = r.file
              /\ summary' = AddTokens(summary, r.out)
              /\ task_detail' = [task_detail EXCEPT !.tokens = @ + r.out.tokens_used]
              /\ agent_tokens' = agent_tokens + r.out.tokens_used
              /\ calls' = Append(calls, [op |-> "write", context |-> writer_context,
                                         success |-> r.out.success,
                                         verdict |-> "", comments |-> "",
                                         message |-> r.out.message])
              /\ lastWrite' = IF r.out.success THEN r.out.data ELSE lastWrite
              /\ IF WriterFailed(r.out)
                 THEN pc' = "settle" /\ writer_data' = writer_data
                 ELSE pc' = "review" /\ writer_data' = r.out.data
    /\ UNCHANGED <<status, vstore, emb, today, pending, clusters, tasks,
                   taskIdx, approved, reviewer_feedback, batches, gate, lastUpdate>>
    /\ UNCHANGED dvars
    /\ UNCHANGED xvars
    /\ UNCHANGED backfill

\* Lines 223-242 and the loop test of line 203: one reviewer call
BatchReview ==
    /\ pc = "review"
    /\ \E outcome \in ReviewerOutcomes :
          LET r == ReviewerRun(writer_data, ledger, today, outcome)
          IN  /\ ledger' = r.file
              /\ summary' = AddTokens(summary, r.out)
              /\ task_detail' = [task_detail EXCEPT !.tokens = @ + r.out.tokens_used]
              /\ agent_tokens' = agent_tokens + r.out.tokens_used
              /\ calls' = Append(calls, [op |-> "review", context |-> Cfg,
                                         success |-> r.out.success,
                                         verdict |-> r.out.data.verdict,
                                         comments |-> r.out.data.comments,
                                         message |-> r.out.message])
              /\ IF ~r.out.success
                 THEN pc' = "settle" /\ UNCHANGED <<approved, reviewer_feedback>>
                 ELSE IF r.out.data.verdict = "approve"
                 THEN pc' = "settle" /\ approved' = TRUE
                      /\ reviewer_feedback' = reviewer_feedback
                 ELSE /\ reviewer_feedback' = r.out.data.comments
                      /\ approved' = approved
                      /\ pc' = IF LoopContinues(attempts) THEN "write" ELSE "settle"
    /\ UNCHANGED <<status, vstore, emb, today, pending, clusters, tasks,
                   taskIdx, attempts, writer_data, batches, gate, lastUpdate,
                   lastWrite>>
    /\ UNCHANGED dvars
    /\ UNCHANGED xvars
    /\ UNCHANGED backfill

\* Lines 244-247: an approved change set goes to the deploy agent
BatchDeploy ==
    /\ pc = "settle"
    /\ ShouldDeploy(approved, writer_data)
    /\ DeployEnter(writer_data.changes)
    /\ calls' = Append(calls, [op |-> "deploy", context |-> Cfg,
                               success |-> TRUE, verdict |-> "", comments |-> "",
                               message |-> ""])
    /\ pc' = "deploying"
    /\ UNCHANGED <<status, vstore, emb, ledger, today, pending, clusters,
                   tasks, taskIdx, attempts, approved, writer_data,
                   reviewer_feedback, task_detail, summary, batches, gate,
                   lastUpdate, lastWrite>>
    /\ UNCHANGED agent_tokens
    /\ UNCHANGED xvars
    /\ UNCHANGED backfill

\* Lines 248-265 and 278: the deploy agent has returned
BatchAfterDeploy ==
    /\ pc = "deploying"
    /\ dpc = "returned"
    /\ LET detail == [task_detail EXCEPT
                          !.outcome = IF dout.success THEN "done" ELSE "deploy_failed"]
       IN  /\ task_detail' = detail
           /\ IF dout.success
              THEN /\ UpdateStatus(task_detail.references, "done",
                                   Note("summary", 0, writer_data.summary))
                   /\ summary' = [AddTokens(summary, dout) EXCEPT
                                                 !.tasks_completed = @ + 1,
                                                 !.details = Append(@, detail)]
              ELSE /\ UpdateStatus(task_detail.references, "pending",
                                   Note("deploy_failed", 0, dout.message))
                   /\ summary' = [AddTokens(summary, dout) EXCEPT
                                                 !.tasks_failed = @ + 1,
                                                 !.details = Append(@, detail)]
    /\ taskIdx' = taskIdx + 1
    /\ pc' = "task"
    /\ dpc' = "idle"
    /\ dout' = NoOutput
    /\ dchanges' = <<>>
    /\ original_branch' = "unset"
    /\ dfail' = "none"
    /\ dlog' = <<>>
    /\ wrote' = {}
    /\ fs0' = fs
    /\ UNCHANGED <<fs, repo>>
    /\ calls' = <<>>
    /\ lastWrite' = NoData
    /\ UNCHANGED <<vstore, emb, ledger, today, pending, clusters, tasks, attempts,
                   approved, writer_data, reviewer_feedback, batches, gate>>
    /\ agent_tokens' = agent_tokens + dout.tokens_used
    /\ UNCHANGED xvars
    /\ UNCHANGED backfill

BatchRejectMutant ==
    /\ pc = "settle"
    /\ ~ShouldDeploy(approved, writer_data)
    /\ LET detail == [task_detail EXCEPT !.outcome = "review_rejected"]
       IN  /\ task_detail' = detail
           /\ UpdateStatus(task_detail.references, "pending",
                           Note("review_rejected", attempts,
                                IF Truthy(reviewer_feedback) THEN reviewer_feedback ELSE ""))
           /\ BatchReturn([summary EXCEPT !.tasks_failed = @ + 1,
                                          !.details = Append(@, detail)], ledger)
    /\ taskIdx' = taskIdx + 1
    /\ calls' = <<>>
    /\ lastWrite' = NoData
    /\ UNCHANGED <<vstore, emb, ledger, today, pending, clusters, tasks, attempts,
                   approved, writer_data, reviewer_feedback, batches, gate>>
    /\ UNCHANGED dvars
    /\ UNCHANGED agent_tokens
    /\ UNCHANGED xvars
    /\ UNCHANGED backfill

\* Lines 266-278: not approved, the references go back to pending
BatchReject ==
    /\ pc = "settle"
    /\ ~ShouldDeploy(approved, writer_data)
    /\ LET detail == [task_detail EXCEPT !.outcome = "review_rejected"]
       IN  /\ task_detail' = detail
           /\ UpdateStatus(task_detail.references, "pending",
                           Note("review_rejected", attempts,
                                IF Truthy(reviewer_feedback) THEN reviewer_feedback ELSE ""))
           /\ summary' = [summary EXCEPT !.tasks_failed = @ + 1,
                                         !.details = Append(@, detail)]
    /\ taskIdx' = taskIdx + 1
    /\ pc' = "task"
    /\ calls' = <<>>
    /\ lastWrite' = NoData
    /\ UNCHANGED <<vstore, emb, ledger, today, pending, clusters, tasks, attempts,
                   approved, writer_data, reviewer_feedback, batches, gate>>
    /\ UNCHANGED dvars
    /\ UNCHANGED agent_tokens
    /\ UNCHANGED xvars
    /\ UNCHANGED backfill

\* Lines 280-297: the loop is over, final summary
BatchFinish ==
    /\ pc = "task"
    /\ taskIdx > Len(tasks)
    /\ BatchReturn(summary, ledger)
    /\ UNCHANGED <<status, vstore, emb, ledger, today, pending, clusters,
                   tasks, taskIdx, attempts, approved, writer_data,
                   reviewer_feedback, task_detail, batches, calls, gate,
                   lastUpdate, lastWrite>>
    /\ UNCHANGED dvars
    /\ UNCHANGED agent_tokens
    /\ UNCHANGED xvars
    /\ UNCHANGED backfill

-----------------------------------------------------------------------------
(* Initial states of the batch model *)

CleanTree == [s \in InsideSlots |-> "v0"]

InitRepo == [head |-> "main", feature |-> FALSE, mainTree |-> CleanTree,
             featTree |-> CleanTree, merges |-> 0]

Today0 == 11

InitStatuses ==
    {[r \in Refs |-> "pending"],
     [r \in Refs |-> IF r = NumRefs THEN "rejected" ELSE "pending"]}

EmbLayouts == {[r \in Refs |-> r], [r \in Refs |-> 2 * r]}

\* Ledger files: none yet; today's spend close to the daily cap; the week's
\* spend at the weekly cap.
InitLedgers ==
    {EmptyLedger,
     [daily |-> (Today0 :> 158334 * COST_PER_TOKEN_GBP),
      weekly |-> (MondayOf(Today0) :> 158334 * COST_PER_TOKEN_GBP)],
     [daily |-> [d \in MondayOf(Today0)..(Today0 - 1) |-> 166667 * COST_PER_TOKEN_GBP],
      weekly |-> (MondayOf(Today0) :> 4 * 166667 * COST_PER_TOKEN_GBP)]}

\* The ledger and cluster observations while no ledger-only or cluster-only
\* run is modelled
NoOp == [op |-> "none"]
NoSeen == [none |-> TRUE]
NoIter == [none |-> TRUE]

InitLedgerVars ==
    /\ lastOp = NoOp
    /\ spend = EmptyDict
    /\ lops = 0
    /\ wpc = "idle"
    /\ wdata = EmptyLedger
    /\ wold = EmptyLedger
    /\ seen = NoSeen

\* No intake request in progress and an empty table
InitIntakeVars ==
    /\ feedback = <<>>
    /\ ireq = <<>>
    /\ dbwriter = 0
    /\ icalls = {}

InitClusterVars ==
    /\ cpc = "idle"
    /\ ci = 1
    /\ cclustered = {}
    /\ cacc = <<>>
    /\ clast = NoIter
    /\ crank = [r \in Refs |-> r]
    /\ cfailing = {}

InitBatchVars ==
    /\ vstore = {}
    /\ today = Today0
    /\ pc = "idle"
    /\ pending = <<>>
    /\ clusters = <<>>
    /\ tasks = <<>>
    /\ taskIdx = 1
    /\ attempts = 0
    /\ approved = FALSE
    /\ writer_data = NoData
    /\ reviewer_feedback = PyNone
    /\ task_detail = NoTaskDetail
    /\ summary = EmptySummary
    /\ batches = 0
    /\ calls = <<>>
    /\ gate = <<>>
    /\ lastUpdate = {}
    /\ lastWrite = NoData
    /\ agent_tokens = 0
    /\ backfill = <<>>

InitDeployVars ==
    /\ repo = InitRepo
    /\ dpc = "idle"
    /\ dchanges = <<>>
    /\ original_branch = "unset"
    /\ dfail = "none"
    /\ dout = NoOutput
    /\ dlog = <<>>
    /\ wrote = {}
    /\ fs0 = fs

InitBatch ==
    /\ status \in InitStatuses
    /\ emb \in EmbLayouts
    /\ ledger \in InitLedgers
    /\ InitBatchVars
    /\ fs = [s \in FileSlots |-> "v0"]
    /\ InitDeployVars
    /\ InitLedgerVars
    /\ InitClusterVars
    /\ InitIntakeVars

NextBatch ==
    \/ BatchStart \/ BatchCluster \/ BatchPrioritise \/ BatchTaskBegin
    \/ BatchWrite \/ BatchReview \/ BatchDeploy \/ BatchAfterDeploy
    \/ BatchReject \/ BatchFinish
    \/ DStatus \/ DRevParse \/ DCheckoutNew \/ DApply \/ DAdd \/ DCommit
    \/ DPipeline \/ DFailCheckout \/ DFailBranchDelete \/ DCheckoutMain
    \/ DMerge \/ DMergeAbort \/ DAbortBranchDelete \/ DBranchDelete
    \/ DDeployScript \/ DTimeoutCheckout \/ DTimeoutBranchDelete

SpecBatch == InitBatch /\ [][NextBatch]_vars

-----------------------------------------------------------------------------
(* run_batch in a process that can die in the middle of a task *)

\* The process dies between the in_progress write of line 195 and the final
\* status write of the task (lines 247-276): its locals are gone, no summary
\* is returned, and the rows, the ledger, the vector store and the repository
\* stay as the committed writes left them.  Inside the deploy agent the
\* process dies only while the working tree is on the snapshot branch the
\* git model starts every run from.
BatchCrash ==
    /\ pc \in {"write", "review", "settle", "deploying"}
    /\ pc = "deploying" => dpc \in {"status", "revparse", "returned"}
    /\ pc' = "idle"
    /\ pending' = <<>>
    /\ clusters' = <<>>
    /\ tasks' = <<>>
    /\ taskIdx' = 1
    /\ attempts' = 0
    /\ approved' = FALSE
    /\ writer_data' = NoData
    /\ reviewer_feedback' = PyNone
    /\ task_detail' = NoTaskDetail
    /\ summary' = EmptySummary
    /\ calls' = <<>>
    /\ gate' = <<>>
    /\ lastUpdate' = {}
    /\ lastWrite' = NoData
    /\ agent_tokens' = 0
    /\ dpc' = "idle"
    /\ dout' = NoOutput
    /\ dchanges' = <<>>
    /\ original_branch' = "unset"
    /\ dfail' = "none"
    /\ dlog' = <<>>
    /\ wrote' = {}
    /\ fs0' = fs
    /\ UNCHANGED <<fs, repo, status, vstore, emb, ledger, today, batches, backfill>>
    /\ UNCHANGED xvars

NextCrash == NextBatch \/ BatchCrash

SpecCrash == InitBatch /\ [][NextCrash]_vars

-----------------------------------------------------------------------------
(* The deployer on its own: any change list against a clean or dirty tree *)

InitDeploy ==
    /\ fs \in {[s \in FileSlots |-> "v0"],
                [s \in FileSlots |-> IF s \in InsideSlots THEN "v1" ELSE "v0"]}
    /\ InitDeployVars
    /\ status = [r \in Refs |-> "pending"]
    /\ emb = [r \in Refs |-> 0]
    /\ ledger = EmptyLedger
    /\ InitBatchVars
    /\ InitLedgerVars
    /\ InitClusterVars
    /\ InitIntakeVars

\* One DeployerAgent.run call with any change list; runs one after another are
\* in the batch model.
DeployCall ==
    /\ dpc = "idle"
    /\ \E changes \in ChangeLists : DeployEnter(changes)
    /\ UNCHANGED bvars
    /\ UNCHANGED xvars

NextDeploy == DeployCall \/ DeployStep

SpecDeploy == InitDeploy /\ [][NextDeploy]_vars

-----------------------------------------------------------------------------
(* Intake: POST /api/feedback (backend/app/router_feedback.py) with the filter
   agent (pipeline/agents/filter_agent.py); requests run in parallel *)

MaxRequests == 2

Requests == 1..MaxRequests

RECURSIVE Digits(_)
\* The decimal digits of n, as format spec "d" writes them
Digits(n) == IF n < 10 THEN <<n>> ELSE Append(Digits(n \div 10), n % 10)

RECURSIVE ZeroPad(_, _)
\* Format spec "03": zeros on the left up to the width, never a cut
ZeroPad(ds, width) == IF Len(ds) >= width THEN ds ELSE ZeroPad(<<0>> \o ds, width)

FormatReferenceMutant(id) == [prefix |-> "LW-", digits |-> Digits(id)]

\* Line 27: f"LW-{feedback.id:03d}"
FormatReference(id) == [prefix |-> "LW-", digits |-> ZeroPad(Digits(id), 3)]

\* Line 21: reference="" until the id is known
Placeholder == [prefix |-> "", digits |-> <<>>]

\* The integer primary key the store gives to an inserted row
NextId(table) ==
    IF DOMAIN table = {} THEN 1
    ELSE (CHOOSE i \in DOMAIN table : \A j \in DOMAIN table : j <= i) + 1

\* Ids of the rows the table holds when the requests arrive
BaseIds == {0, 98, 998}

NoNotes == [none |-> TRUE]

\* One line of the chat model's answer: how it starts, the word after the
\* colon, and what follows the first "|" ("nobar" when there is none)
Chatter == [tag |-> "note", word |-> "unsure", rest |-> "nobar"]

AnswerLines ==
    {Chatter,
     [tag |-> "VERDICT:", word |-> "safe", rest |-> "nobar"],
     [tag |-> "VERDICT:", word |-> "reject", rest |-> "nobar"],
     [tag |-> "VERDICT:", word |-> "reject", rest |-> ""],
     [tag |-> "Verdict:", word |-> "REJECTED", rest |-> " r1 "]}

Upper(t) == IF t = "Verdict:" THEN "VERDICT:" ELSE IF t = "note" THEN "NOTE" ELSE t

Lower(w) == IF w = "REJECTED" THEN "rejected" ELSE w

Strip(t) == IF t = " r1 " THEN "r1" ELSE t

\* What the chat back-end does for the filter's request: no usable response
\* (unreachable, timed out or an error status: httpx.HTTPError), a body that is
\* not JSON or has no message.content (ValueError, KeyError), a body of
\* another shape (TypeError), or a text
FilterAnswers ==
    {[kind |-> k, text |-> <<>>] : k \in {"http_error", "bad_body", "wrong_type"}}
    \cup {[kind |-> "text", text |-> t] : t \in SeqsUpTo(AnswerLines, 2)}

RECURSIVE ParseVerdict(_, _)
\* _parse_verdict: the first line starting with VERDICT: decides
ParseVerdict(lines, i) ==
    IF i > Len(lines) THEN [verdict |-> "safe", reason |-> ""]
    ELSE IF Upper(lines[i].tag) = "VERDICT:"
    THEN IF Lower(lines[i].word) \in {"reject", "rejected"}
         THEN [verdict |-> "reject",
               reason |-> IF lines[i].rest # "nobar" THEN Strip(lines[i].rest)
                          ELSE "Rejected by safety filter"]
         ELSE [verdict |-> "safe", reason |-> ""]
    ELSE ParseVerdict(lines, i + 1)

FilterRunMutant(answer) ==
    IF answer.kind = "text"
    THEN [raised |-> FALSE, data |-> ParseVerdict(answer.text, 1)]
    ELSE [raised |-> FALSE, data |-> [verdict |-> "reject", reason |-> "unavailable"]]

\* FilterAgent.run: httpx.HTTPError, KeyError and ValueError are caught and
\* give safe; any other exception leaves the agent
FilterRun(answer) ==
    IF answer.kind = "text"
    THEN [raised |-> FALSE, data |-> ParseVerdict(answer.text, 1)]
    ELSE IF answer.kind = "wrong_type"
    THEN [raised |-> TRUE, data |-> [verdict |-> "", reason |-> ""]]
    ELSE [raised |-> FALSE, data |-> [verdict |-> "safe", reason |-> "unavailable"]]

\* What the request keeps of the filter call: the agent's result and, for the
\* properties, how the back-end had answered
FilterRecord(answer) ==
    [raised |-> FilterRun(answer).raised,
     data |-> FilterRun(answer).data,
     kind |-> answer.kind,
     verdict_line |-> \E i \in DOMAIN answer.text : answer.text[i].tag # "note",
     said_reject |-> \E i \in DOMAIN answer.text :
                        /\ answer.text[i].tag # "note"
                        /\ answer.text[i].word \in {"reject", "REJECTED"}]

\* What the model keeps of it once the request has returned
Kept(f) == [f EXCEPT !.data = [verdict |-> f.data.verdict]]

NoFilter == [none |-> TRUE]
NoResponse == [none |-> TRUE]

RejectNotesMutant(data) == "Rejected by safety filter"

\* Lines 38-40: filter_result.data.get("reason", "Rejected by safety filter")
RejectNotes(data) ==
    IF "reason" \in DOMAIN data THEN data.reason ELSE "Rejected by safety filter"

\* Line 36
FilterRejects(f) == ~f.raised /\ f.data.verdict = "reject"

Created(reference, st) == [code |-> 201, reference |-> reference, status |-> st]

InitIntake ==
    /\ \E base \in BaseIds :
          feedback = IF base = 0 THEN <<>>
                     ELSE [i \in {base} |-> [reference |-> FormatReference(base),
                                             status |-> "done",
                                             agent_notes |-> NoNotes]]
    /\ ireq = [q \in Requests |-> [pc |-> "new", id |-> 0, reference |-> Placeholder,
                                    filter |-> NoFilter, resp |-> NoResponse]]
    /\ dbwriter = 0
    /\ icalls = {}
    /\ status = [r \in Refs |-> "pending"]
    /\ emb = [r \in Refs |-> 0]
    /\ ledger = EmptyLedger
    /\ InitBatchVars
    /\ fs = [s \in FileSlots |-> "v0"]
    /\ InitDeployVars
    /\ InitLedgerVars
    /\ InitClusterVars

inotintake == <<bvars, dvars, lastOp, spend, lops, wpc, wdata, wold, seen, cpc, ci,
                cclustered, cacc, clast, crank, cfailing>>

\* Lines 20-26: db.add and db.flush open the request's write transaction,
\* which the store grants to one request at a time, and assign the id
IntakeFlush(q) ==
    /\ ireq[q].pc = "new"
    /\ dbwriter = 0
    /\ dbwriter' = q
    /\ ireq' = [ireq EXCEPT ![q].pc = "flushed", ![q].id = NextId(feedback)]
    /\ UNCHANGED <<feedback, icalls>>
    /\ UNCHANGED inotintake

\* Lines 27-29: the reference is set and the row committed as pending
IntakeCommit(q) ==
    /\ ireq[q].pc = "flushed"
    /\ LET id == ireq[q].id
           reference == FormatReference(id)
       IN  /\ feedback' = [i \in DOMAIN feedback \cup {id} |->
                              IF i = id THEN [reference |-> reference,
                                              status |-> "pending",
                                              agent_notes |-> NoNotes]
                              ELSE feedback[i]]
           /\ ireq' = [ireq EXCEPT ![q].pc = "committed", ![q].reference = reference]
    /\ dbwriter' = 0
    /\ UNCHANGED icalls
    /\ UNCHANGED inotintake

\* Lines 32-35: the filter agent is called
IntakeFilter(q) ==
    /\ ireq[q].pc = "committed"
    /\ \E answer \in FilterAnswers :
          ireq' = [ireq EXCEPT ![q].pc = "filtered", ![q].filter = FilterRecord(answer)]
    /\ UNCHANGED <<feedback, dbwriter, icalls>>
    /\ UNCHANGED inotintake

\* Lines 36-45: the verdict is reject
IntakeReject(q) ==
    /\ ireq[q].pc = "filtered"
    /\ FilterRejects(ireq[q].filter)
    /\ dbwriter = 0
    /\ feedback' = [feedback EXCEPT
                        ![ireq[q].id].status = "rejected",
                        ![ireq[q].id].agent_notes = RejectNotes(ireq[q].filter.data)]
    /\ ireq' = [ireq EXCEPT ![q].pc = "returned",
                            ![q].filter = Kept(@),
                            ![q].resp = Created(ireq[q].reference, "rejected")]
    /\ UNCHANGED <<dbwriter, icalls>>
    /\ UNCHANGED inotintake

\* Lines 46-66: any other verdict, or the agent raised: the embedding is
\* generated and stored, whatever comes of it
IntakeEmbed(q) ==
    /\ ireq[q].pc = "filtered"
    /\ ~FilterRejects(ireq[q].filter)
    /\ icalls' = icalls \cup {ireq[q].reference}
    /\ ireq' = [ireq EXCEPT ![q].pc = "returned",
                            ![q].filter = Kept(@),
                            ![q].resp = Created(ireq[q].reference, "pending")]
    /\ UNCHANGED <<feedback, dbwriter>>
    /\ UNCHANGED inotintake

NextIntake ==
    \E q \in Requests :
        \/ IntakeFlush(q) \/ IntakeCommit(q) \/ IntakeFilter(q)
        \/ IntakeReject(q) \/ IntakeEmbed(q)

SpecIntake == InitIntake /\ [][NextIntake]_vars

-----------------------------------------------------------------------------
(* One intake request while run_batch runs in the pipeline's process: both
   work on the same rows.  The batch side is one run of run_batch as in
   SpecBatch; the request's row is the column value status[NewRef], "absent"
   until the commit of line 28 *)

NewRef == NumRefs

\* What the request handler keeps of the filter result
Verdict(f) == [raised |-> f.raised, data |-> [verdict |-> f.data.verdict]]

mixrest == <<dvars, emb, ledger, today, pc, pending, clusters, tasks, taskIdx,
             attempts, approved, writer_data, reviewer_feedback, task_detail,
             summary, batches, calls, gate, lastUpdate, lastWrite, agent_tokens,
             backfill, lastOp, spend, lops, wpc, wdata, wold, seen, cpc, ci,
             cclustered, cacc, clast, crank, cfailing, feedback, dbwriter>>

InitMixed ==
    /\ status = [r \in Refs |-> IF r = NewRef THEN "absent" ELSE "pending"]
    /\ emb = [r \in Refs |-> r]
    /\ ledger = EmptyLedger
    /\ vstore = {}
    /\ today = Today0
    /\ pc = "idle"
    /\ pending = <<>>
    /\ clusters = <<>>
    /\ tasks = <<>>
    /\ taskIdx = 1
    /\ attempts = 0
    /\ approved = FALSE
    /\ writer_data = NoData
    /\ reviewer_feedback = PyNone
    /\ task_detail = NoTaskDetail
    /\ summary = EmptySummary
    /\ batches = MaxBatches - 1
    /\ calls = <<>>
    /\ gate = <<>>
    /\ lastUpdate = {}
    /\ lastWrite = NoData
    /\ agent_tokens = 0
    /\ backfill = <<>>
    /\ fs = [s \in FileSlots |-> "v0"]
    /\ InitDeployVars
    /\ InitLedgerVars
    /\ InitClusterVars
    /\ feedback = <<>>
    /\ dbwriter = 0
    /\ icalls = {}
    /\ ireq = <<[pc |-> "new", id |-> 0, reference |-> Placeholder,
                 filter |-> NoFilter, resp |-> NoResponse]>>

\* Lines 20-29: the row is added, gets its id and reference, and is committed
\* with status pending
MixCreate ==
    /\ ireq[1].pc = "new"
    /\ status[NewRef] = "absent"
    /\ status' = [status EXCEPT ![NewRef] = "pending"]
    /\ ireq' = [ireq EXCEPT ![1].pc = "committed", ![1].id = NewRef,
                            ![1].reference = FormatReference(NewRef)]
    /\ UNCHANGED <<vstore, icalls>>
    /\ UNCHANGED mixrest

\* Lines 32-35: the filter agent is called
MixFilter ==
    /\ ireq[1].pc = "committed"
    /\ \E answer \in FilterAnswers :
          ireq' = [ireq EXCEPT ![1].pc = "filtered",
                               ![1].filter = Verdict(FilterRecord(answer))]
    /\ UNCHANGED <<status, vstore, icalls>>
    /\ UNCHANGED mixrest

\* Lines 36-45: the verdict is reject; the handler's row object gets status
\* rejected and the commit writes that column
MixReject ==
    /\ ireq[1].pc = "filtered"
    /\ FilterRejects(ireq[1].filter)
    /\ status' = [status EXCEPT ![ireq[1].id] = "rejected"]
    /\ ireq' = [ireq EXCEPT ![1].pc = "returned",
                            ![1].resp = Created(ireq[1].reference, "rejected")]
    /\ UNCHANGED <<vstore, icalls>>
    /\ UNCHANGED mixrest

\* Lines 46-66: any other verdict, or the agent raised: the embedding is
\* stored or not, and the response carries the status the handler last read
MixEmbed ==
    /\ ireq[1].pc = "filtered"
    /\ ~FilterRejects(ireq[1].filter)
    /\ icalls' = icalls \cup {ireq[1].reference}
    /\ \E ok \in BOOLEAN : vstore' = IF ok THEN vstore \cup {ireq[1].id} ELSE vstore
    /\ ireq' = [ireq EXCEPT ![1].pc = "returned",
                            ![1].resp = Created(ireq[1].reference, "pending")]
    /\ UNCHANGED status
    /\ UNCHANGED mixrest

NextMixed == NextBatch \/ MixCreate \/ MixFilter \/ MixReject \/ MixEmbed

SpecMixed == InitMixed /\ [][NextMixed]_vars

-----------------------------------------------------------------------------
(* The deploy branch of one task (batch.py lines 244-278): the writer's change
   set has been approved, the task's submissions are in_progress, and every
   subprocess call of the deployer can time out *)

TaskReferences == {<<1>>, <<1, 2>>}

InitTask ==
    /\ fs \in {[s \in FileSlots |-> "v0"],
                [s \in FileSlots |-> IF s \in InsideSlots THEN "v1" ELSE "v0"]}
    /\ InitDeployVars
    /\ emb = [r \in Refs |-> 0]
    /\ ledger = EmptyLedger
    /\ vstore = {}
    /\ today = Today0
    /\ pc = "settle"
    /\ pending = <<>>
    /\ clusters = <<>>
    /\ tasks = <<>>
    /\ taskIdx = 1
    /\ attempts = 1
    /\ approved = TRUE
    /\ \E refs \in TaskReferences, changes \in ChangeLists :
          /\ task_detail = [NoTaskDetail EXCEPT !.references = refs]
          /\ status = [r \in Refs |-> IF r \in SeqToSet(refs) THEN "in_progress"
                                       ELSE "pending"]
          /\ writer_data = [changes |-> changes, summary |-> "w1", reasoning |-> "r"]
    /\ reviewer_feedback = PyNone
    /\ summary = [EmptySummary EXCEPT !.tasks_attempted = 1]
    /\ batches = 0
    /\ calls = <<>>
    /\ gate = <<>>
    /\ lastUpdate = {}
    /\ lastWrite = NoData
    /\ agent_tokens = 0
    /\ backfill = <<>>
    /\ InitLedgerVars
    /\ InitClusterVars
    /\ InitIntakeVars

NextTask == BatchDeploy \/ DeployStep \/ BatchAfterDeploy

SpecTask == InitTask /\ [][NextTask]_vars

-----------------------------------------------------------------------------
(* The ledger on its own: budget.py and the three paid agents, called by one
   process at a time *)

MaxOps == 3

\* What BUDGET_FILE can be other than a saved ledger (lines 35 and 40-41)
MissingFile == [missing |-> TRUE]
UnreadableFile == [unreadable |-> TRUE]

\* The week's spend just below the weekly cap, nothing spent today
WeekNearCap ==
    [daily |-> [d \in MondayOf(Today0)..(Today0 - 1) |-> 166500 * COST_PER_TOKEN_GBP],
     weekly |-> (MondayOf(Today0) :> 4 * 166500 * COST_PER_TOKEN_GBP)]

BudgetFiles == {MissingFile, UnreadableFile, WeekNearCap} \cup InitLedgers

\* tokens handed to record_usage by a direct caller
RecordTokens == {0, 166000}

\* The credits a saved ledger holds, day by day
CreditsOf(file) == IF "daily" \in DOMAIN file THEN file.daily ELSE EmptyDict
Credit(sp, day, tokens) ==
    DictPut(sp, day, DictGet(sp, day) + tokens * COST_PER_TOKEN_GBP)

\* Clusters handed to the prioritiser: one reference each, or one cluster
\* of all the references
ClusterLists ==
    {[i \in 1..n |-> MakeCluster(<<i>>)] : n \in 1..NumRefs}
        \cup {<<MakeCluster([i \in 1..NumRefs |-> i])>>}

\* One summarisation back-end answer per cluster
SummaryAnswers == SummaryOutcomes \cup {[up |-> TRUE, tokens |-> 0]}

\* The prioritiser run cut after its first k clusters: the ledger as the
\* k-th iteration leaves it
PrioritiserPrefix(cs, k, file, day, outcomes) ==
    PrioritiserRun(SubSeq(cs, 1, k), file, day, SubSeq(outcomes, 1, k))

\* Lines 53-68 as observed from outside: for every summarisation call the
\* run makes, check_budget()["allowed"] at the moment the call starts and
\* whether the call was credited to the ledger
SummarisationCalls(cs, file, day, outcomes) ==
    LET n == Len(PrioritiserRun(cs, file, day, outcomes).out.data.tasks)
    IN  [i \in 1..n |->
           LET before == IF i = 1 THEN file
                         ELSE PrioritiserPrefix(cs, i - 1, file, day, outcomes).file
           IN  [allowed |-> CheckBudget(before, day).allowed,
                credited |-> SummariseCluster(cs[i].documents, outcomes[i]).tokens > 0]]

\* What a caller reads off an AgentOutput here: success and tokens_used
Outcome(out) == [success |-> out.success, tokens_used |-> out.tokens_used]

bnotledger == <<status, vstore, emb, pc, pending, clusters, tasks, taskIdx,
                attempts, approved, writer_data, reviewer_feedback,
                task_detail, summary, batches, calls, gate, lastUpdate,
                lastWrite, agent_tokens, backfill>>
racevars == <<wpc, wdata, wold, seen>>
cvars == <<cpc, ci, cclustered, cacc, clast, crank, cfailing>>

InitBudget ==
    /\ ledger \in BudgetFiles
    /\ spend = CreditsOf(ledger)
    /\ lastOp = NoOp
    /\ lops = 0
    /\ wpc = "idle"
    /\ wdata = EmptyLedger
    /\ wold = EmptyLedger
    /\ seen = NoSeen
    /\ status = [r \in Refs |-> "pending"]
    /\ emb = [r \in Refs |-> 0]
    /\ InitBatchVars
    /\ fs = [s \in FileSlots |-> "v0"]
    /\ InitDeployVars
    /\ InitClusterVars
    /\ InitIntakeVars

\* check_budget()
LCheck ==
    /\ lops < MaxOps
    /\ lastOp' = [op |-> "check", day |-> today, prev |-> lastOp.op,
                  result |-> CheckBudget(ledger, today)]
    /\ lops' = lops + 1
    /\ UNCHANGED <<ledger, today, spend>>
    /\ UNCHANGED <<bnotledger, dvars, racevars, cvars, ivars>>

\* record_usage(tokens)
LRecord ==
    /\ lops < MaxOps
    /\ \E tokens \in RecordTokens :
          /\ ledger' = RecordUsage(ledger, today, tokens)
          /\ spend' = Credit(spend, today, tokens)
          /\ lastOp' = [op |-> "record", day |-> today, tokens |-> tokens,
                        fresh |-> ledger \in {MissingFile, UnreadableFile}]
    /\ lops' = lops + 1
    /\ UNCHANGED today
    /\ UNCHANGED <<bnotledger, dvars, racevars, cvars, ivars>>

\* WriterAgent.run
LWrite ==
    /\ lops < MaxOps
    /\ \E outcome \in WriterOutcomes :
          LET r == WriterRun(NoTaskDetail, Cfg, ledger, today, outcome)
          IN  /\ ledger' = r.file
              /\ spend' = Credit(spend, today, r.out.tokens_used)
              /\ lastOp' = [op |-> "write", day |-> today, out |-> Outcome(r.out),
                            allowed |-> CheckBudget(ledger, today).allowed,
                            recorded |-> r.file # ledger]
    /\ lops' = lops + 1
    /\ UNCHANGED today
    /\ UNCHANGED <<bnotledger, dvars, racevars, cvars, ivars>>

\* ReviewerAgent.run
LReview ==
    /\ lops < MaxOps
    /\ \E data \in WriterMenu, outcome \in ReviewerOutcomes :
          LET r == ReviewerRun(data, ledger, today, outcome)
          IN  /\ ledger' = r.file
              /\ spend' = Credit(spend, today, r.out.tokens_used)
              /\ lastOp' = [op |-> "review", day |-> today, out |-> Outcome(r.out),
                            allowed |-> CheckBudget(ledger, today).allowed,
                            recorded |-> r.file # ledger,
                            changes |-> Len(data.changes),
                            verdict |-> r.out.data.verdict]
    /\ lops' = lops + 1
    /\ UNCHANGED today
    /\ UNCHANGED <<bnotledger, dvars, racevars, cvars, ivars>>

\* PrioritiserAgent.run
LPrioritise ==
    /\ lops < MaxOps
    /\ \E cs \in ClusterLists :
       \E outcomes \in [1..Len(cs) -> SummaryAnswers] :
          LET r == PrioritiserRun(cs, ledger, today, outcomes)
          IN  /\ ledger' = r.file
              /\ spend' = Credit(spend, today, r.out.tokens_used)
              /\ lastOp' = [op |-> "prioritise", day |-> today, out |-> Outcome(r.out),
                            allowed |-> CheckBudget(ledger, today).allowed,
                            started |-> SummarisationCalls(cs, ledger, today, outcomes),
                            clusters |-> cs,
                            tasks |-> r.out.data.tasks,
                            answers |-> SubSeq(outcomes, 1, Len(r.out.data.tasks))]
    /\ lops' = lops + 1
    /\ UNCHANGED today
    /\ UNCHANGED <<bnotledger, dvars, racevars, cvars, ivars>>

\* _today_str() moves on: to the next UTC date, or to the Monday after
LDayPasses ==
    /\ lops < MaxOps
    /\ \E d \in {today + 1, MondayOf(today) + 7} :
          /\ today' = d
          /\ lastOp' = [op |-> "day", day |-> d]
    /\ lops' = lops + 1
    /\ UNCHANGED <<ledger, spend>>
    /\ UNCHANGED <<bnotledger, dvars, racevars, cvars, ivars>>

NextBudget ==
    \/ LCheck \/ LRecord \/ LWrite \/ LReview \/ LPrioritise \/ LDayPasses

SpecBudget == InitBudget /\ [][NextBudget]_vars

-----------------------------------------------------------------------------
(* record_usage in one process, check_budget in another: _save_budget step by
   step (Path.write_text opens the file for writing, which truncates it, then
   writes the text) *)

\* BUDGET_FILE after open(mode="w") and before the text is flushed: no JSON
TruncatedFile == UnreadableFile

InitRace ==
    /\ ledger \in BudgetFiles
    /\ spend = CreditsOf(ledger)
    /\ lastOp = NoOp
    /\ lops = 0
    /\ wpc = "idle"
    /\ wdata = EmptyLedger
    /\ wold = ledger
    /\ seen = NoSeen
    /\ status = [r \in Refs |-> "pending"]
    /\ emb = [r \in Refs |-> 0]
    /\ InitBatchVars
    /\ fs = [s \in FileSlots |-> "v0"]
    /\ InitDeployVars
    /\ InitClusterVars
    /\ InitIntakeVars

\* record_usage lines 52-63: load the ledger and add the cost in memory
RecordLoad ==
    /\ wpc = "idle"
    /\ lops < MaxOps
    /\ \E tokens \in RecordTokens :
          /\ wdata' = RecordUsage(ledger, today, tokens)
          /\ spend' = Credit(spend, today, tokens)
    /\ wold' = ledger
    /\ wpc' = "save"
    /\ lops' = lops + 1
    /\ UNCHANGED <<ledger, today, lastOp, seen>>
    /\ UNCHANGED <<bnotledger, dvars, cvars, ivars>>

\* _save_budget line 47, first half: write_text opens BUDGET_FILE for writing
SaveOpen ==
    /\ wpc = "save"
    /\ ledger' = TruncatedFile
    /\ wpc' = "write"
    /\ UNCHANGED <<today, lastOp, spend, lops, wdata, wold, seen>>
    /\ UNCHANGED <<bnotledger, dvars, cvars, ivars>>

\* _save_budget line 47, second half: the text reaches the file
SaveWrite ==
    /\ wpc = "write"
    /\ ledger' = wdata
    /\ wpc' = "idle"
    /\ UNCHANGED <<today, lastOp, spend, lops, wdata, wold, seen>>
    /\ UNCHANGED <<bnotledger, dvars, cvars, ivars>>

\* check_budget() of another process, at any moment
ReaderCheck ==
    /\ seen' = [result |-> CheckBudget(ledger, today),
                during |-> wpc,
                old |-> CheckBudget(wold, today),
                new |-> IF wpc = "idle" THEN CheckBudget(ledger, today)
                        ELSE CheckBudget(wdata, today)]
    /\ UNCHANGED <<ledger, today, lastOp, spend, lops, wpc, wdata, wold>>
    /\ UNCHANGED <<bnotledger, dvars, cvars, ivars>>

NextRace == RecordLoad \/ SaveOpen \/ SaveWrite \/ ReaderCheck

SpecRace == InitRace /\ [][NextRace]_vars

-----------------------------------------------------------------------------
(* ClusterAgent.run on its own: any pending list against any store, one
   action per iteration of the loop of _cluster_by_similarity *)

\* Embedding positions: 0 and 1 are within DISTANCE_THRESHOLD of each other,
\* 0 and 2 are not; equal positions are equal texts.
Positions == 0..2

\* The pending references in created_at order
RECURSIVE Ascending(_, _)
Ascending(S, from) ==
    IF from > NumRefs THEN <<>>
    ELSE IF from \in S THEN <<from>> \o Ascending(S, from + 1)
         ELSE Ascending(S, from + 1)

\* A submission an earlier batch has finished: store_feedback_embedding only
\* ever upserts, so its embedding is still in the collection
OldRef == 0

StoreItems == Refs \cup {OldRef}

bnotclusters == <<status, vstore, emb, ledger, today, pc, pending, tasks,
                  taskIdx, attempts, approved, writer_data, reviewer_feedback,
                  task_detail, summary, batches, calls, gate, lastUpdate,
                  lastWrite, agent_tokens, backfill>>
ledgervars == <<lastOp, spend, lops, wpc, wdata, wold, seen>>

InitCluster ==
    /\ \E P \in SUBSET Refs :
          /\ pending = Ascending(P, 1)
          /\ status = [r \in Refs |-> IF r \in P THEN "pending" ELSE "done"]
          /\ cfailing \in {{}} \cup {{r} : r \in P}
    /\ vstore \in SUBSET StoreItems
    /\ emb \in [StoreItems -> Positions]
    /\ crank \in {f \in Permutations1(StoreItems) :
                      f[OldRef] \in {1, Cardinality(StoreItems)}}
    /\ cpc = "start"
    /\ ci = 1
    /\ cclustered = {}
    /\ cacc = <<>>
    /\ clast = NoIter
    /\ clusters = <<>>
    /\ ledger = EmptyLedger
    /\ today = Today0
    /\ pc = "idle"
    /\ tasks = <<>>
    /\ taskIdx = 1
    /\ attempts = 0
    /\ approved = FALSE
    /\ writer_data = NoData
    /\ reviewer_feedback = PyNone
    /\ task_detail = NoTaskDetail
    /\ summary = EmptySummary
    /\ batches = 0
    /\ calls = <<>>
    /\ gate = <<>>
    /\ lastUpdate = {}
    /\ lastWrite = NoData
    /\ agent_tokens = 0
    /\ backfill = <<>>
    /\ fs = [s \in FileSlots |-> "v0"]
    /\ InitDeployVars
    /\ InitLedgerVars
    /\ InitIntakeVars

\* ids of line 48: the pending references the store holds
CIds == StoredIds(pending, vstore)

\* Lines 23-61: the early returns and the fetch of the stored embeddings
CGet ==
    /\ cpc = "start"
    /\ \E getFails \in BOOLEAN :
          cpc' = IF pending = <<>> THEN "returned"
                 ELSE IF getFails THEN "failed"
                 ELSE IF CIds = <<>> THEN "returned"
                 ELSE "loop"
    /\ UNCHANGED <<ci, cclustered, cacc, clast, crank, cfailing, clusters>>
    /\ UNCHANGED <<bnotclusters, dvars, ledgervars, ivars>>

\* Lines 89-132: one iteration of the for loop
CSeed ==
    /\ cpc = "loop"
    /\ ci <= Len(CIds)
    /\ LET ref_id == CIds[ci]
           results == Query(vstore, emb[ref_id],
                            Min(Len(CIds), CHROMADB_MAX_RESULTS), emb, crank)
           w == WalkResults(results, 1, CIds, cclustered, <<>>, emb[ref_id], emb)
       IN  IF ref_id \in cclustered
           THEN /\ clast' = [seed |-> ref_id, kind |-> "skipped", results |-> <<>>,
                             cluster_refs |-> <<>>]
                /\ UNCHANGED <<cclustered, cacc>>
           ELSE IF ref_id \in cfailing
           THEN /\ clast' = [seed |-> ref_id, kind |-> "fallback", results |-> <<>>,
                             cluster_refs |-> <<ref_id>>]
                /\ cacc' = Append(cacc, MakeCluster(<<ref_id>>))
                /\ cclustered' = cclustered \cup {ref_id}
           ELSE /\ clast' = [seed |-> ref_id, kind |-> "query", results |-> results,
                             cluster_refs |-> w.cluster_refs]
                /\ cacc' = IF w.cluster_refs # <<>>
                           THEN Append(cacc, MakeCluster(w.cluster_refs)) ELSE cacc
                /\ cclustered' = w.clustered
    /\ ci' = ci + 1
    /\ UNCHANGED <<cpc, crank, cfailing, clusters>>
    /\ UNCHANGED <<bnotclusters, dvars, ledgervars, ivars>>

\* Lines 63-72: sort and return
CReturn ==
    /\ cpc = "loop"
    /\ ci > Len(CIds)
    /\ clusters' = SortBySize(cacc)
    /\ cpc' = "returned"
    /\ UNCHANGED <<ci, cclustered, cacc, clast, crank, cfailing>>
    /\ UNCHANGED <<bnotclusters, dvars, ledgervars, ivars>>

NextCluster == CGet \/ CSeed \/ CReturn

SpecCluster == InitCluster /\ [][NextCluster]_vars

-----------------------------------------------------------------------------
(* Properties of run_batch *)

WritesMade == Cardinality({i \in DOMAIN calls : calls[i].op = "write"})
ReviewsMade == Cardinality({i \in DOMAIN calls : calls[i].op = "review"})

\* The write/review loop of the current task is over
LoopDone == pc \in {"settle", "deploying"}

HasFeedback(call) == "reviewer_feedback" \in DOMAIN call.context

TaskRefs(j) == SeqToSet(tasks[j].references)

\* C1: every status write of run_batch is a legal transition: in_progress is
\* written only over pending, done and pending only over in_progress, and a
\* status changes in no other way than by such a write.
C1_LegalStatusWrites ==
    [][/\ \A u \in lastUpdate' :
              /\ u.new \in {"in_progress", "done", "pending"}
              /\ u.new = "in_progress" => u.old = "pending"
              /\ u.new \in {"done", "pending"} => u.old = "in_progress"
       /\ \A r \in Refs :
              status'[r] # status[r] =>
                  \E u \in lastUpdate' :
                      u.ref = r /\ u.old = status[r] /\ u.new = status'[r]]_vars

\* A task of two references has gone back from in_progress to pending.
C1_Witness ==
    /\ Cardinality(lastUpdate) = 2
    /\ \A u \in lastUpdate : u.old = "in_progress" /\ u.new = "pending"

\* C2: once a submission is done, no step of any later run_batch gives it
\* another status.
C2_DoneIsFinal ==
    [][\A r \in Refs : status[r] = "done" => status'[r] = "done"]_vars

\* A later run is writing for a task while a submission finished by an earlier
\* run is done.
C2_Witness ==
    /\ batches = 2
    /\ pc = "write"
    /\ \E r \in Refs : status[r] = "done" /\ r \notin SeqToSet(pending)

\* C3 as stated: the first write of a task gets no reviewer_feedback, every
\* later write gets reviewer_feedback equal to the comments of the review
\* before it.
C3_FeedbackAlwaysPassed ==
    \A i \in DOMAIN calls :
        calls[i].op = "write" =>
            IF i = 1 THEN ~HasFeedback(calls[i])
            ELSE /\ calls[i - 1].op = "review"
                 /\ HasFeedback(calls[i])
                 /\ calls[i].context.reviewer_feedback = calls[i - 1].comments

\* C3, amended: the first write of a task gets no reviewer_feedback; a later
\* write gets reviewer_feedback equal to the comments of the review before it
\* when those comments are not empty, and no reviewer_feedback when they are
\* empty (never the comments of an older review).
C3_RetryFeedback ==
    \A i \in DOMAIN calls :
        calls[i].op = "write" =>
            IF i = 1 THEN ~HasFeedback(calls[i])
            ELSE /\ calls[i - 1].op = "review"
                 /\ IF calls[i - 1].comments = ""
                    THEN ~HasFeedback(calls[i])
                    ELSE /\ HasFeedback(calls[i])
                         /\ calls[i].context.reviewer_feedback = calls[i - 1].comments

\* The third write follows a review with empty comments that itself followed a
\* review with comments.
C3_Witness ==
    /\ Len(calls) >= 5
    /\ calls[5].op = "write"
    /\ calls[2].comments = "c1"
    /\ HasFeedback(calls[3])
    /\ calls[4].comments = ""

\* C4 as stated: at most 1 + max_writer_retries writes per task, each review
\* right after a write of its own; when the loop is over and every review
\* rejected with success=true there were exactly 1 + max_writer_retries writes
\* and reviews; an approval at attempt k is the last call of the loop, after k
\* writes and k reviews.
C4_LoopCountsAsStated ==
    /\ WritesMade <= 1 + max_writer_retries
    /\ ReviewsMade <= WritesMade
    /\ \A i \in DOMAIN calls :
           calls[i].op = "review" => i > 1 /\ calls[i - 1].op = "write"
    /\ (/\ LoopDone
        /\ \A i \in DOMAIN calls :
               calls[i].op = "review" =>
                   calls[i].success /\ calls[i].verdict = "reject")
           => WritesMade = 1 + max_writer_retries
              /\ ReviewsMade = 1 + max_writer_retries
    /\ \A i \in DOMAIN calls :
           (calls[i].op = "review" /\ calls[i].success /\ calls[i].verdict = "approve")
               => /\ i = 2 * WritesMade
                  /\ i = 2 * ReviewsMade
                  /\ \A j \in DOMAIN calls : j > i => calls[j].op = "deploy"

\* C4, amended: the same, with the case of rejections alone stated for a loop
\* in which every write succeeded.
C4_LoopCounts ==
    /\ WritesMade <= 1 + max_writer_retries
    /\ ReviewsMade <= WritesMade
    /\ \A i \in DOMAIN calls :
           calls[i].op = "review" => i > 1 /\ calls[i - 1].op = "write"
    /\ (/\ LoopDone
        /\ \A i \in DOMAIN calls :
               /\ calls[i].op = "write" => calls[i].success
               /\ calls[i].op = "review" =>
                      calls[i].success /\ calls[i].verdict = "reject")
           => WritesMade = 1 + max_writer_retries
              /\ ReviewsMade = 1 + max_writer_retries
    /\ \A i \in DOMAIN calls :
           (calls[i].op = "review" /\ calls[i].success /\ calls[i].verdict = "approve")
               => /\ i = 2 * WritesMade
                  /\ i = 2 * ReviewsMade
                  /\ \A j \in DOMAIN calls : j > i => calls[j].op = "deploy"

\* Every review of the task rejected, and the loop has ended.
C4_Witness ==
    /\ pc = "settle"
    /\ WritesMade = 1 + max_writer_retries
    /\ ReviewsMade = 1 + max_writer_retries
    /\ \A i \in DOMAIN calls :
           calls[i].op = "review" => calls[i].success /\ calls[i].verdict = "reject"

\* C5: the deploy agent runs for a task only right after a review that
\* returned success=true and approve, on the change set of the latest
\* successful write, which is the write that review looked at.
C5_DeployOnlyApproved ==
    (pc = "deploying" \/ \E i \in DOMAIN calls : calls[i].op = "deploy") =>
        LET n == Len(calls)
        IN  /\ pc = "deploying"
            /\ n >= 3
            /\ calls[n].op = "deploy"
            /\ calls[n - 1].op = "review"
            /\ calls[n - 1].success
            /\ calls[n - 1].verdict = "approve"
            /\ calls[n - 2].op = "write"
            /\ calls[n - 2].success
            /\ ~IsNone(lastWrite)
            /\ dchanges = lastWrite.changes

\* The deploy agent is working on the change set approved at the second
\* attempt.
C5_Witness ==
    /\ pc = "deploying"
    /\ dpc = "pipeline"
    /\ Len(calls) = 5
    /\ dchanges # <<>>

\* C10: a task is attempted only when the check at the start of the run and
\* the check right before the task both allowed it; a check that does not
\* allow ends the run at once, with nothing attempted or paid after it and
\* the references of the tasks not attempted still pending.
C10_BudgetGates ==
    /\ pc \in {"write", "review", "settle", "deploying"} =>
           /\ Len(gate) >= 2
           /\ gate[1]
           /\ gate[Len(gate)]
           /\ summary.tasks_attempted = Len(gate) - 1
           /\ \A r \in TaskRefs(taskIdx) : status[r] = "in_progress"
    /\ \A i \in DOMAIN gate :
           ~gate[i] =>
               /\ i = Len(gate)
               /\ pc = "idle"
               /\ summary.tasks_attempted = IF i = 1 THEN 0 ELSE i - 2
               /\ summary.budget_remaining = CheckBudget(ledger, today)
               /\ \A j \in taskIdx..Len(tasks) :
                      \A r \in TaskRefs(j) : status[r] = "pending"
    /\ (gate # <<>> /\ ~gate[1]) => summary = BatchReturnValue(EmptySummary, ledger)

\* The check before the second task did not allow; the first task had been
\* attempted.
C10_Witness ==
    /\ pc = "idle"
    /\ Len(gate) = 3
    /\ ~gate[3]
    /\ summary.tasks_attempted = 1
    /\ taskIdx = 2
    /\ Len(tasks) >= 2

-----------------------------------------------------------------------------
(* Properties of the deployer *)

Escapes(change) == ResolvePath(Root, change.path) \in OutsideSlots

HasEscape(changes) == \E i \in DOMAIN changes : Escapes(changes[i])

LogHas(cmd, rc, before) ==
    \E j \in 1..(before - 1) : dlog[j].cmd = cmd /\ dlog[j].rc = rc

\* C6: whenever DeployerAgent.run has returned success=false, the working
\* tree is on the snapshot branch and the feature branch does not exist.
C6_DeployAtomicity ==
    (dpc = "returned" /\ ~dout.success)
        => (repo.head = "main" /\ ~repo.feature)

\* C7: a merge is run only after pipeline.sh exited 0 on the committed
\* change set, deploy.sh is run only after the merge succeeded, and a
\* non-zero pipeline exit is followed by neither a merge nor deploy.sh.
C7_MergeOnlyAfterPipeline ==
    \A i \in DOMAIN dlog :
        /\ dlog[i].cmd = "merge" =>
              \E j \in 1..(i - 1) :
                  /\ dlog[j].cmd = "pipeline.sh" /\ dlog[j].rc = "ok"
                  /\ LogHas("commit", "ok", j)
        /\ dlog[i].cmd = "deploy.sh" => LogHas("merge", "ok", i)
        /\ (dlog[i].cmd = "pipeline.sh" /\ dlog[i].rc = "fail") =>
              \A j \in (i + 1)..Len(dlog) : dlog[j].cmd \notin {"merge", "deploy.sh"}

C7_Witness ==
    /\ dpc = "returned" /\ dout.success /\ dout.deployed
    /\ \E i \in DOMAIN dlog : dlog[i].cmd = "merge" /\ dlog[i].rc = "ok"
    /\ \E i \in DOMAIN dlog : dlog[i].cmd = "deploy.sh"

\* C8: no file outside repo_path is created, overwritten or deleted by a
\* deploy, whatever the change list and the order of its changes.
C8_PathSafety ==
    /\ wrote \cap OutsideSlots = {}
    /\ \A s \in OutsideSlots : fs[s] = fs0[s]

C8_Witness ==
    /\ dpc = "returned"
    /\ wrote # {}
    /\ HasEscape(dchanges)

\* C9: a change list holding an escaping path at any position makes deploy
\* abort before any write: nothing is written, the working tree is as it
\* was, and the deploy fails.
C9_AbortBeforeAnyWrite ==
    HasEscape(dchanges) =>
        /\ wrote = {}
        /\ TreeOf(fs) = TreeOf(fs0)
        /\ dpc = "returned" => ~dout.success

-----------------------------------------------------------------------------
(* Token accounting of run_batch *)

\* C12: on every exit path of run_batch, summary.total_tokens is the sum of
\* tokens_used over every agent output of the run (cluster, prioritise, each
\* write, each review, each deploy).
C12_TokenAccounting ==
    pc = "idle" /\ batches > 0 => summary.total_tokens = agent_tokens

\* A run returned after paid writer and prioritiser calls
C12_Witness ==
    /\ pc = "idle" /\ batches > 0
    /\ summary.tasks_attempted > 0
    /\ summary.total_tokens > WriterTokens

\* The writes one _update_status call makes to the references of the task
TaskWrites(new, agent_notes) ==
    {[ref |-> r, old |-> "in_progress", new |-> new, agent_notes |-> agent_notes] :
        r \in SeqToSet(task_detail.references)}

\* C13: when an attempted task finishes, all its references get one status:
\* done with agent_notes the change-set summary when the review approved and
\* the deploy returned success; otherwise pending, agent_notes 'Deploy failed:
\* <message>' when the deploy returned success=false and 'Review rejected
\* after N attempt(s)' with N the attempts made when the change was not
\* approved, and the task is counted in tasks_failed.
C13_TaskOutcome ==
    [][(pc \in {"deploying", "settle"} /\ pc' = "task") =>
         /\ \A r \in SeqToSet(task_detail.references) :
                status'[r] = IF approved /\ pc = "deploying" /\ dout.success
                             THEN "done" ELSE "pending"
         /\ IF approved /\ pc = "deploying" /\ dout.success
            THEN /\ lastUpdate' = TaskWrites("done", [kind |-> "summary", n |-> 0,
                                                      text |-> writer_data.summary])
                 /\ summary'.tasks_completed = summary.tasks_completed + 1
                 /\ summary'.tasks_failed = summary.tasks_failed
            ELSE /\ summary'.tasks_failed = summary.tasks_failed + 1
                 /\ summary'.tasks_completed = summary.tasks_completed
                 /\ IF approved
                    THEN lastUpdate' = TaskWrites("pending", [kind |-> "deploy_failed", n |-> 0,
                                                             text |-> dout.message])
                    ELSE \E text \in {""} \cup {o.comments : o \in ReviewerOutcomes} :
                            lastUpdate' = TaskWrites("pending", [kind |-> "review_rejected",
                                                                n |-> attempts,
                                                                text |-> text])]_vars

\* A task of two references has finished with a failed deploy
C13_Witness ==
    /\ pc = "task"
    /\ task_detail.outcome = "deploy_failed"
    /\ Len(task_detail.references) = 2
    /\ \A r \in SeqToSet(task_detail.references) : status[r] = "pending"
    /\ summary.tasks_failed > 0

-----------------------------------------------------------------------------
(* Properties of the ledger and of the paid agents *)

\* C11: every operation credited to the ledger (a summarisation call of the
\* prioritiser, a write call, a review call) starts only while
\* check_budget()["allowed"] is true at that moment; when it is false a write
\* or a review returns success=false with tokens_used=0 and records nothing.
C11_PaidOnlyWhenAllowed ==
    /\ lastOp.op \in {"write", "review"} =>
          /\ (lastOp.out.tokens_used > 0 \/ lastOp.recorded) => lastOp.allowed
          /\ ~lastOp.allowed =>
                /\ ~lastOp.out.success
                /\ lastOp.out.tokens_used = 0
                /\ ~lastOp.recorded
    /\ lastOp.op = "prioritise" =>
          \A i \in DOMAIN lastOp.started :
              lastOp.started[i].credited => lastOp.started[i].allowed

\* The part of C11 about the writer and the reviewer alone
C11_WriteReviewGated ==
    lastOp.op \in {"write", "review"} =>
       /\ (lastOp.out.tokens_used > 0 \/ lastOp.recorded) => lastOp.allowed
       /\ ~lastOp.allowed =>
             /\ ~lastOp.out.success
             /\ lastOp.out.tokens_used = 0
             /\ ~lastOp.recorded

-----------------------------------------------------------------------------
(* Properties of the cluster agent *)

\* The clusters that hold reference r
ClustersWith(r) ==
    {k \in DOMAIN clusters : r \in SeqToSet(clusters[k].references)}

\* The stepwise run and ClusterRun give the same clusters
ClusterRunAgrees ==
    cpc = "returned" =>
       clusters = ClusterRun(pending, vstore, emb, crank, cfailing, FALSE).data.clusters

\* C14: in one run of the cluster agent every input pending reference with a
\* stored embedding is in exactly one emitted cluster, whatever non-pending
\* items the store holds and however many references are pending.
C14_ClusterPartition ==
    cpc = "returned" =>
       \A r \in SeqToSet(pending) \cap vstore :
          /\ Cardinality(ClustersWith(r)) = 1
          /\ \A k \in ClustersWith(r) :
                Cardinality({j \in DOMAIN clusters[k].references :
                                clusters[k].references[j] = r}) = 1

\* C15: a reference is added to a seed's cluster only if the similarity
\* query for that seed returned it with distance <= 1.0; one returned with a
\* larger distance is never placed in that seed's cluster.
C15_OnlyQueryResultsWithinThreshold ==
    cpc = "loop" /\ ~IsNone(clast) =>
       \A rid \in SeqToSet(clast.cluster_refs) :
          /\ rid \in SeqToSet(clast.results)
          /\ Distance(emb[rid], emb[clast.seed]) <= DISTANCE_THRESHOLD

\* C15 as the code has it: the seed of a query that raised is put in a
\* cluster of its own without any query result.
C15_WithinThresholdOrFallback ==
    cpc = "loop" /\ ~IsNone(clast) =>
       \/ /\ clast.kind = "fallback"
          /\ clast.cluster_refs = <<clast.seed>>
          /\ clast.seed \in cfailing
       \/ /\ clast.kind # "fallback"
          /\ \A rid \in SeqToSet(clast.cluster_refs) :
                /\ rid \in SeqToSet(clast.results)
                /\ Distance(emb[rid], emb[clast.seed]) <= DISTANCE_THRESHOLD
          /\ \A rid \in SeqToSet(clast.results) :
                Distance(emb[rid], emb[clast.seed]) > DISTANCE_THRESHOLD
                   => rid \notin SeqToSet(clast.cluster_refs)

\* A query returned the seed and a pending reference beyond the threshold,
\* and only the seed was placed in the cluster
C15_Witness ==
    /\ cpc = "loop" /\ ~IsNone(clast)
    /\ clast.kind = "query"
    /\ clast.cluster_refs = <<clast.seed>>
    /\ \E rid \in SeqToSet(clast.results) :
          /\ rid \in SeqToSet(pending)
          /\ Distance(emb[rid], emb[clast.seed]) > DISTANCE_THRESHOLD
          /\ rid \notin SeqToSet(clast.cluster_refs)

-----------------------------------------------------------------------------
(* Properties of check_budget and record_usage *)

\* C16: for every ledger state check_budget() returns daily_remaining =
\* max(0, daily cap - daily_spent) and weekly_remaining likewise, never
\* negative, and allowed exactly when both are > 0: spend at or above either
\* cap blocks.
C16_CheckArithmetic ==
    lastOp.op = "check" =>
       LET b == lastOp.result
       IN  /\ b.daily_remaining >= 0
           /\ b.weekly_remaining >= 0
           /\ b.daily_remaining = IF b.daily_spent >= DAILY_CAP_GBP THEN 0
                                  ELSE DAILY_CAP_GBP - b.daily_spent
           /\ b.weekly_remaining = IF b.weekly_spent >= WEEKLY_CAP_GBP THEN 0
                                   ELSE WEEKLY_CAP_GBP - b.weekly_spent
           /\ b.allowed <=> (b.daily_remaining > 0 /\ b.weekly_remaining > 0)
           /\ b.allowed <=> (b.daily_spent < DAILY_CAP_GBP /\ b.weekly_spent < WEEKLY_CAP_GBP)

\* check_budget() with the week's spend above the weekly cap and today's below
\* the daily cap
C16_Witness ==
    /\ lastOp.op = "check"
    /\ lastOp.result.weekly_spent > WEEKLY_CAP_GBP
    /\ lastOp.result.weekly_remaining = 0
    /\ lastOp.result.daily_remaining > 0
    /\ ~lastOp.result.allowed

\* The credits of the days of one calendar week (Monday to Sunday)
RECURSIVE SumWeek(_, _, _)
SumWeek(sp, days, week) ==
    IF days = {} THEN 0
    ELSE LET d == CHOOSE x \in days : TRUE
         IN  (IF d \div 7 = week THEN sp[d] ELSE 0) + SumWeek(sp, days \ {d}, week)

\* C17: daily_spent of check_budget() is the spend recorded under today's
\* date and weekly_spent the spend recorded under the days of the current
\* Monday-to-Sunday week: spend of an earlier date adds nothing to
\* daily_spent, spend of an earlier week nothing to weekly_spent, and spend
\* of earlier days of this week still counts in weekly_spent.
C17_SpendByDate ==
    LET b == CheckBudget(ledger, today)
    IN  /\ b.daily_spent = DictGet(spend, today)
        /\ b.weekly_spent = SumWeek(spend, DOMAIN spend, today \div 7)

\* check_budget() after the date changed within a week that has spend
C17_Witness ==
    /\ lastOp.op = "check"
    /\ lastOp.prev = "day"
    /\ lastOp.result.daily_spent = 0
    /\ lastOp.result.weekly_spent > 0
    /\ \E d \in DOMAIN spend : d < today /\ spend[d] > 0

C19_ReaderSeesOldOrNew ==
    ~IsNone(seen) =>
       /\ seen.result.daily_spent \in {seen.old.daily_spent, seen.new.daily_spent}
       /\ seen.result.weekly_spent \in {seen.old.weekly_spent, seen.new.weekly_spent}

-----------------------------------------------------------------------------
(* A failing deploy script *)

\* DeployerAgent.run has returned right after deploy.sh exited non-zero
DeployScriptFailed ==
    /\ dpc = "returned"
    /\ dlog # <<>>
    /\ dlog[Len(dlog)].cmd = "deploy.sh"
    /\ dlog[Len(dlog)].rc = "fail"
    /\ \E j \in DOMAIN dlog : dlog[j].cmd = "pipeline.sh" /\ dlog[j].rc = "ok"
    /\ \E j \in DOMAIN dlog : dlog[j].cmd = "merge" /\ dlog[j].rc = "ok"

\* C20: when pipeline.sh and the merge succeed and deploy.sh exits non-zero,
\* the deploy returns success=true with deployed=false, the merge stays on
\* the snapshot branch (nothing is rolled back), and run_batch marks the
\* references of the task done.
C20_DeployScriptFailure ==
    [][(pc = "deploying" /\ DeployScriptFailed) =>
         /\ dout.success
         /\ ~dout.deployed
         /\ repo.head = "main"
         /\ repo.merges > 0
         /\ repo.mainTree = repo.featTree
         /\ TreeOf(fs) = repo.mainTree
         /\ repo' = repo /\ fs' = fs
         /\ pc' = "task"
         /\ \A r \in SeqToSet(task_detail.references) : status'[r] = "done"
         /\ summary'.tasks_completed = summary.tasks_completed + 1]_vars

\* The deploy of a task has returned after a failing deploy.sh and the merged
\* change is in the snapshot branch
C20_Witness ==
    /\ pc = "deploying"
    /\ DeployScriptFailed
    /\ dout.success /\ ~dout.deployed
    /\ repo.mainTree # CleanTree

-----------------------------------------------------------------------------
(* Timeouts of the deployer *)

TimeoutAt(i) == i \in DOMAIN dlog /\ dlog[i].rc = "timeout"

\* C21: when any git or script call of a deploy has timed out, the deploy
\* returns success=false from the timeout handler, which has run the checkout
\* of the snapshot branch whenever that branch had been recorded, and the
\* orchestrator then puts the task's references back to pending and counts the
\* task as failed.
C21_TimeoutRollsBack ==
    [][(pc = "deploying" /\ pc' = "task" /\ \E i \in DOMAIN dlog : TimeoutAt(i))
         => /\ ~dout.success
            /\ dout.message = "timed_out"
            /\ original_branch # "unset" =>
                  \E i \in DOMAIN dlog, j \in DOMAIN dlog :
                      TimeoutAt(i) /\ i < j /\ dlog[j].cmd = "checkout"
            /\ \A r \in SeqToSet(task_detail.references) : status'[r] = "pending"
            /\ summary'.tasks_failed = summary.tasks_failed + 1
            /\ summary'.tasks_completed = summary.tasks_completed]_vars

C21_Witness ==
    /\ pc = "task"
    /\ summary.tasks_failed = 1
    /\ \E u \in lastUpdate : u.new = "pending" /\ u.agent_notes.text = "timed_out"
    /\ repo.head = "main"

-----------------------------------------------------------------------------
(* Intake *)

RECURSIVE DecimalValue(_)
DecimalValue(ds) ==
    IF ds = <<>> THEN 0
    ELSE DecimalValue(SubSeq(ds, 1, Len(ds) - 1)) * 10 + ds[Len(ds)]

\* "LW-" and the decimal digits of id, filled with zeros on the left to three
\* digits and no further
IsReferenceOf(reference, id) ==
    /\ reference.prefix = "LW-"
    /\ Len(reference.digits) >= 3
    /\ \A k \in DOMAIN reference.digits : reference.digits[k] \in 0..9
    /\ DecimalValue(reference.digits) = id
    /\ Len(reference.digits) > 3 => reference.digits[1] # 0

\* C22: however the intake requests interleave, every committed row has the
\* reference "LW-" + its id zero-padded to width 3, no two rows share a
\* reference, and no step changes the reference of a committed row.
C22_ReferenceFormat ==
    /\ [](/\ \A i \in DOMAIN feedback : IsReferenceOf(feedback[i].reference, i)
          /\ \A i, j \in DOMAIN feedback :
                i # j => feedback[i].reference # feedback[j].reference
          /\ \A q \in DOMAIN ireq :
                ireq[q].pc = "returned" =>
                    ireq[q].resp.reference = feedback[ireq[q].id].reference)
    /\ [][\A i \in DOMAIN feedback :
             /\ i \in DOMAIN feedback'
             /\ feedback'[i].reference = feedback[i].reference]_vars

\* Two requests overlapped: the later row is committed and answered while the
\* earlier request has not yet had its filter verdict; the ids cross from
\* three digits to four.
C22_Witness ==
    /\ {999, 1000} \subseteq DOMAIN feedback
    /\ feedback[999].reference.digits = <<9, 9, 9>>
    /\ feedback[1000].reference.digits = <<1, 0, 0, 0>>
    /\ \E q1, q2 \in DOMAIN ireq :
          /\ ireq[q1].id = 999 /\ ireq[q1].pc = "committed"
          /\ ireq[q2].id = 1000 /\ ireq[q2].pc = "returned"

\* C23: a row is rejected at intake only if the filter agent returned verdict
\* reject, which it does only when the chat back-end answered with a VERDICT
\* line saying reject; when the back-end gave no usable response, a body
\* without a VERDICT line, or the agent raised, the row stays pending; every
\* request is answered 201.
C23_FailOpen ==
    \A q \in DOMAIN ireq :
        LET r == ireq[q]
        IN  /\ r.pc \in {"committed", "filtered"} =>
                  feedback[r.id].status = "pending"
            /\ r.pc = "returned" =>
                  /\ r.resp.code = 201
                  /\ feedback[r.id].status \in {"pending", "rejected"}
                  /\ feedback[r.id].status = "rejected" =>
                        /\ ~r.filter.raised
                        /\ r.filter.data.verdict = "reject"
                        /\ r.filter.kind = "text"
                        /\ r.filter.said_reject
                  /\ (r.filter.kind # "text" \/ r.filter.raised
                        \/ ~r.filter.verdict_line) =>
                        /\ feedback[r.id].status = "pending"
                        /\ r.resp.status = "pending"

C23_Witness ==
    \E q1, q2 \in DOMAIN ireq :
        /\ ireq[q1].pc = "returned" /\ ireq[q1].filter.kind = "http_error"
        /\ feedback[ireq[q1].id].status = "pending"
        /\ ireq[q2].pc = "returned" /\ ireq[q2].filter.raised
        /\ feedback[ireq[q2].id].status = "pending"

\* C24: when the filter returns reject, the request's closing step stores the
\* row as rejected with agent_notes equal to the filter's reason, and intake
\* makes no store_feedback_embedding call for that reference, then or later.
C24_RejectStored ==
    /\ [][\A q \in DOMAIN ireq :
             (/\ ireq[q].pc = "filtered"
              /\ ~ireq[q].filter.raised
              /\ ireq[q].filter.data.verdict = "reject") =>
                 /\ ireq'[q].pc \in {"filtered", "returned"}
                 /\ ireq'[q].pc = "returned" =>
                       /\ feedback'[ireq[q].id].status = "rejected"
                       /\ feedback'[ireq[q].id].agent_notes = ireq[q].filter.data.reason
                       /\ ireq'[q].resp.status = "rejected"
                       /\ ireq[q].reference \notin icalls']_vars
    /\ [](\A q \in DOMAIN ireq :
             (/\ ireq[q].pc = "returned"
              /\ ~ireq[q].filter.raised
              /\ ireq[q].filter.data.verdict = "reject") =>
                 /\ feedback[ireq[q].id].status = "rejected"
                 /\ ireq[q].reference \notin icalls)

C24_Witness ==
    \E q1, q2 \in DOMAIN ireq :
        /\ ireq[q1].pc = "returned"
        /\ feedback[ireq[q1].id].status = "rejected"
        /\ feedback[ireq[q1].id].agent_notes = "r1"
        /\ ireq[q1].reference \notin icalls
        /\ ireq[q2].reference \in icalls

-----------------------------------------------------------------------------
(* Agent failures inside a task *)

FailedCall(call) == call.op \in {"write", "review"} /\ ~call.success

\* C25: within a task, a write or review that returned success=false is the
\* last agent call of the task (no review of that attempt, no further write,
\* review or deploy), and the task then ends with its references pending and
\* tasks_failed one higher.
C25_AgentFailureEndsTask ==
    /\ [](\A i \in DOMAIN calls : FailedCall(calls[i]) => i = Len(calls))
    /\ [][(calls # <<>> /\ FailedCall(calls[Len(calls)])) =>
             \/ UNCHANGED <<calls, status, summary, pc>>
             \/ /\ pc = "settle" /\ pc' = "task"
                /\ \A r \in SeqToSet(task_detail.references) : status'[r] = "pending"
                /\ summary'.tasks_failed = summary.tasks_failed + 1
                /\ summary'.tasks_completed = summary.tasks_completed]_vars

\* The second write of a task failed after a rejected review and the loop
\* has been left.
C25_Witness ==
    /\ pc = "settle"
    /\ Len(calls) = 3
    /\ calls[2].op = "review" /\ calls[2].success /\ calls[2].verdict = "reject"
    /\ calls[3].op = "write" /\ ~calls[3].success
    /\ \A r \in SeqToSet(task_detail.references) : status[r] = "in_progress"

-----------------------------------------------------------------------------
(* What the cluster agent emits *)

\* C26: every cluster the agent emits is non-empty and contains the seed
\* reference whose query produced it.
C26_ClusterHoldsSeed ==
    /\ \A k \in DOMAIN cacc : cacc[k].references # <<>>
    /\ \A k \in DOMAIN clusters : clusters[k].references # <<>>
    /\ (clast # NoIter /\ clast.cluster_refs # <<>>) =>
          clast.seed \in SeqToSet(clast.cluster_refs)

\* C27: every reference in an emitted cluster is an input pending reference
\* with a stored embedding; an item of the store that is not in the input
\* list is in no cluster, however near it is to a seed.
C27_OnlyPendingStored ==
    /\ \A k \in DOMAIN cacc :
          SeqToSet(cacc[k].references) \subseteq SeqToSet(pending) \cap vstore
    /\ \A k \in DOMAIN clusters :
          SeqToSet(clusters[k].references) \subseteq SeqToSet(pending) \cap vstore

\* A query returned an item that is not pending within the threshold of the
\* seed, and the run emitted that seed's cluster.
C27_Witness ==
    /\ cpc = "returned"
    /\ clusters # <<>>
    /\ clast # NoIter /\ clast.kind = "query" /\ clast.cluster_refs # <<>>
    /\ \E j \in DOMAIN clast.results :
          /\ clast.results[j] \notin SeqToSet(pending)
          /\ Distance(emb[clast.results[j]], emb[clast.seed]) <= DISTANCE_THRESHOLD

-----------------------------------------------------------------------------
(* The deployer's precondition *)

\* The working tree differed from the checked-out commit when run was entered
DirtyAtStart == dpc # "idle" /\ TreeOf(fs0) # CleanTree

OnlyStatusRan ==
    /\ repo = InitRepo
    /\ wrote = {}
    /\ fs = fs0
    /\ \A i \in DOMAIN dlog : dlog[i].cmd = "status"

\* C28 as stated: whenever the working tree is not clean when deploy starts,
\* deploy returns success=false and has created no feature branch, written no
\* file, committed nothing and run neither script.
C28_DirtyTreeFails ==
    DirtyAtStart =>
        /\ OnlyStatusRan
        /\ dpc = "returned" => ~dout.success

\* C28: when the working tree is not clean at the start of a deploy of a
\* non-empty change list, deploy returns success=false and has created no
\* feature branch, written no file, committed nothing and run neither script;
\* git status is the only command it runs.
C28_DirtyTreeFailsWithChanges ==
    (DirtyAtStart /\ dchanges # <<>>) =>
        /\ OnlyStatusRan
        /\ dpc = "returned" => ~dout.success

C28_Witness ==
    /\ DirtyAtStart
    /\ dchanges # <<>>
    /\ dpc = "returned"
    /\ dout.message = "not_clean"
    /\ dlog = <<[cmd |-> "status", rc |-> "ok"]>>

-----------------------------------------------------------------------------
(* The reviewer on an empty change list *)

\* C29: for every empty change list, in every budget state, the reviewer
\* returns verdict approve with success=true and tokens_used=0 and makes no
\* back-end call (nothing is credited to the ledger).
C29_EmptyChangesApproved ==
    (lastOp.op = "review" /\ lastOp.changes = 0) =>
        /\ lastOp.verdict = "approve"
        /\ lastOp.out.success
        /\ lastOp.out.tokens_used = 0
        /\ ~lastOp.recorded

-----------------------------------------------------------------------------
(* Paid calls that fail *)

DailySpent(file) == CheckBudget(file, today).daily_spent

\* C30: a write or review whose paid call returned a body that cannot be
\* parsed returns success=false with tokens_used = input + output tokens, and
\* the ledger is credited that amount; one whose paid call failed returns
\* success=false with tokens_used = 0 and the ledger is as before; either way
\* the task then fails and its references end pending.
C30_FailedPaidCalls ==
    /\ [][(Len(calls') = Len(calls) + 1
             /\ calls'[Len(calls')].op \in {"write", "review"}) =>
            LET c == calls'[Len(calls')]
                used == task_detail'.tokens - task_detail.tokens
                paid == IF c.op = "write" THEN WriterTokens ELSE ReviewerTokens
            IN  /\ c.message = "Failed to parse" =>
                      /\ ~c.success
                      /\ used = paid
                      /\ summary'.total_tokens = summary.total_tokens + paid
                      /\ DailySpent(ledger') =
                             DailySpent(ledger) + paid * COST_PER_TOKEN_GBP
                /\ c.message = "Anthropic API error" =>
                      /\ ~c.success
                      /\ used = 0
                      /\ ledger' = ledger
                /\ c.message \in {"Failed to parse", "Anthropic API error"} =>
                      pc' = "settle" /\ ~approved']_vars
    /\ [][(/\ pc = "settle" /\ pc' # "settle"
           /\ calls # <<>>
           /\ calls[Len(calls)].message \in {"Failed to parse", "Anthropic API error"}) =>
              /\ \A r \in SeqToSet(task_detail.references) : status'[r] = "pending"
              /\ task_detail'.outcome = "review_rejected"
              /\ summary'.tasks_failed = summary.tasks_failed + 1]_vars

\* A task has failed on a review that could not be parsed, after a write that
\* was paid for, and on the retry of another task the paid write call failed.
C30_Witness ==
    /\ pc = "settle"
    /\ Len(calls) = 3
    /\ calls[3].op = "write" /\ calls[3].message = "Anthropic API error"
    /\ task_detail.tokens = WriterTokens + ReviewerTokens
    /\ \E k \in DOMAIN summary.details :
          /\ summary.details[k].outcome = "review_rejected"
          /\ summary.details[k].tokens = WriterTokens + ReviewerTokens

-----------------------------------------------------------------------------
(* The prioritiser's task list *)

\* C31: the task list of a prioritiser run corresponds one-to-one and in
\* order to a prefix of the cluster list given: task i has the references and
\* the documents of cluster i and cluster_size = |references|; a cluster whose
\* summarisation call failed still has its task, with the fallback summary
\* and nothing credited for it, and the cluster after it is not skipped; the
\* tokens reported are those of the calls that succeeded.
C31_TasksFollowClusters ==
    lastOp.op = "prioritise" =>
        LET cs == lastOp.clusters
            ts == lastOp.tasks
        IN  /\ Len(ts) <= Len(cs)
            /\ Len(lastOp.answers) = Len(ts)
            /\ \A i \in 1..Len(ts) :
                  /\ ts[i].references = cs[i].references
                  /\ ts[i].documents = cs[i].documents
                  /\ ts[i].cluster_size = Len(cs[i].references)
                  /\ ~lastOp.answers[i].up =>
                        /\ ts[i].summary = [kind |-> "fallback",
                                            n |-> Len(cs[i].documents)]
                        /\ ~lastOp.started[i].credited
                        /\ i < Len(cs) => Len(ts) > i
                  /\ lastOp.answers[i].up =>
                        /\ ts[i].summary.kind = "llm"
                        /\ lastOp.started[i].credited
            /\ (\A i \in 1..Len(ts) : ~lastOp.answers[i].up) =>
                  lastOp.out.tokens_used = 0

\* Two clusters were given; the call for the first failed and the second was
\* summarised all the same.
C31_Witness ==
    /\ lastOp.op = "prioritise"
    /\ Len(lastOp.clusters) = 2
    /\ Len(lastOp.tasks) = 2
    /\ ~lastOp.answers[1].up
    /\ lastOp.answers[2].up
    /\ lastOp.tasks[2].references = <<2>>

\* A cluster of more than one reference became a task.
C31_WitnessSize ==
    /\ lastOp.op = "prioritise"
    /\ Len(lastOp.tasks) = 1
    /\ lastOp.tasks[1].cluster_size = NumRefs

-----------------------------------------------------------------------------
(* The prioritiser's budget gates *)

\* Tokens the ledger is credited for one summarisation answer
AnswerTokens(answer) ==
    IF ~answer.up THEN 0
    ELSE IF answer.tokens = 0 THEN ESTIMATED_TOKENS_PER_SUMMARY
    ELSE answer.tokens

\* daily_spent before the k-th cluster of a run that started with daily_spent
\* d0, given the answers of the clusters before it
RECURSIVE SpentBefore(_, _, _)
SpentBefore(d0, answers, k) ==
    IF k <= 1 THEN d0
    ELSE SpentBefore(d0, answers, k - 1)
             + AnswerTokens(answers[k - 1]) * COST_PER_TOKEN_GBP

RemainingBefore(d0, answers, k) ==
    Max(0, DAILY_CAP_GBP - SpentBefore(d0, answers, k))

ProjectedCost == ESTIMATED_TOKENS_PER_SUMMARY * COST_PER_TOKEN_GBP

\* C32: a prioritiser run that finds check().allowed false at entry returns
\* no task, makes no summarisation call and leaves the ledger alone;
\* otherwise it summarises the clusters in order, every summarised cluster
\* had daily_remaining >= 500 tokens' cost before its call, and when it stops
\* before the end of the list the next cluster's projected cost exceeded
\* daily_remaining.
C32_PrioritiserGates ==
    [][(lastOp'.op = "prioritise" /\ lops' = lops + 1) =>
          LET o == lastOp'
              n == Len(o.tasks)
              d0 == DailySpent(ledger)
          IN  /\ ~CheckBudget(ledger, today).allowed =>
                    /\ o.tasks = <<>>
                    /\ o.started = <<>>
                    /\ o.out.tokens_used = 0
                    /\ ledger' = ledger
              /\ CheckBudget(ledger, today).allowed =>
                    /\ Len(o.started) = n
                    /\ \A k \in 1..n :
                          RemainingBefore(d0, o.answers, k) >= ProjectedCost
                    /\ n < Len(o.clusters) =>
                          RemainingBefore(d0, o.answers, n + 1) < ProjectedCost]_vars

\* The run was allowed at entry, summarised the first cluster and stopped
\* before the second, the ledger still allowing.
C32_Witness ==
    /\ lastOp.op = "prioritise"
    /\ lastOp.allowed
    /\ Len(lastOp.clusters) = 2
    /\ Len(lastOp.tasks) = 1
    /\ CheckBudget(ledger, today).allowed

\* The run was refused at entry although the day could still pay a summary.
C32_WitnessRefused ==
    /\ lastOp.op = "prioritise"
    /\ ~lastOp.allowed
    /\ lastOp.tasks = <<>>
    /\ CheckBudget(ledger, today).daily_remaining >= ProjectedCost

-----------------------------------------------------------------------------
(* The embedding backfill *)

\* C33: a batch that passed its first budget gate and found pending
\* submissions has, when it is about to call the cluster agent, called
\* store_feedback_embedding exactly once for each pending submission, oldest
\* first, whatever the calls returned; the references stored are those whose
\* call returned true, and no agent has been called yet.
C33_BackfillBeforeCluster ==
    /\ pc = "cluster" =>
          /\ gate = <<TRUE>>
          /\ pending # <<>>
          /\ Len(backfill) = Len(pending)
          /\ \A k \in DOMAIN backfill :
                /\ backfill[k].reference = pending[k]
                /\ status[pending[k]] = "pending"
                /\ backfill[k].ok => pending[k] \in vstore
                /\ \A j \in DOMAIN backfill :
                      j < k => backfill[j].reference < backfill[k].reference
          /\ \A r \in Refs :
                status[r] = "pending" => \E k \in DOMAIN backfill : backfill[k].reference = r
          /\ clusters = <<>>
          /\ agent_tokens = 0
    /\ pc # "cluster" => backfill = <<>>

\* The store call for the oldest of two pending submissions returned false
\* and the call for the other was made all the same; the batch goes on to
\* the cluster agent.
C33_Witness ==
    /\ pc = "cluster"
    /\ Len(backfill) = 2
    /\ ~backfill[1].ok
    /\ backfill[2].ok
    /\ backfill[1].reference \notin vstore

-----------------------------------------------------------------------------
(* References a dead run left in_progress *)

\* A reference is in_progress and no running batch holds it: the process
\* that wrote in_progress is gone
Stuck(r) == status[r] = "in_progress" /\ (pc = "idle" \/ r \notin SeqToSet(pending))

\* C34: when the process dies after a task's references were set in_progress
\* and before the task's final status write, those references are
\* in_progress afterwards; and a reference left in_progress with no run
\* holding it stays in_progress through every later run_batch, which neither
\* lists it as pending nor puts it in a cluster or a task nor writes its row.
C34_CrashLeavesInProgress ==
    /\ [][BatchCrash =>
             /\ TaskRefs(taskIdx) # {}
             /\ \A r \in TaskRefs(taskIdx) :
                   status[r] = "in_progress" /\ status'[r] = "in_progress"]_vars
    /\ [][\A r \in Refs :
             Stuck(r) =>
                 /\ status'[r] = "in_progress"
                 /\ r \notin SeqToSet(pending')
                 /\ \A k \in DOMAIN clusters' : r \notin SeqToSet(clusters'[k].references)
                 /\ \A k \in DOMAIN tasks' : r \notin TaskRefs(k)'
                 /\ \A u \in lastUpdate' : u.ref # r
                 /\ \A k \in DOMAIN backfill' : backfill'[k].reference # r]_vars

\* A later run is writing for another submission while a reference of the
\* dead run is still in_progress.
C34_Witness ==
    /\ pc = "write"
    /\ batches = 2
    /\ \E r \in Refs : Stuck(r)
    /\ \E r \in TaskRefs(taskIdx) : status[r] = "in_progress"

-----------------------------------------------------------------------------
(* The counters of the summary *)

\* C35: when run_batch returns, tasks_attempted = tasks_completed +
\* tasks_failed = the number of entries of details; between two tasks the
\* same holds and the loop stands at the task after the last one attempted,
\* whether that one failed or not; and a run none of whose budget gates
\* refused has attempted every task the prioritiser returned.
C35_SummaryCounts ==
    /\ (pc \in {"idle", "task"} /\ batches > 0) =>
          /\ summary.tasks_attempted = summary.tasks_completed + summary.tasks_failed
          /\ summary.tasks_attempted = Len(summary.details)
    /\ pc = "task" => summary.tasks_attempted = taskIdx - 1
    /\ (pc = "idle" /\ batches > 0 /\ \A i \in DOMAIN gate : gate[i]) =>
          summary.tasks_attempted = Len(tasks)

\* The run has returned; its first task failed and its second task was
\* attempted after it.
C35_Witness ==
    /\ pc = "idle"
    /\ batches > 0
    /\ summary.tasks_attempted = 2
    /\ Len(summary.details) = 2
    /\ summary.details[1].outcome # "done"
    /\ summary.tasks_failed >= 1

-----------------------------------------------------------------------------
(* References at the return of run_batch *)

\* The references of the tasks this run attempted: the ones it set
\* in_progress
AttemptedRefs ==
    UNION {SeqToSet(summary.details[k].references) : k \in DOMAIN summary.details}

\* C36: when run_batch has returned, every reference of every task it
\* attempted is done or pending again, whatever the write, review and deploy
\* agents returned: done exactly when the task's outcome is done; and no
\* other reference was made in_progress.
C36_NothingLeftInProgress ==
    (pc = "idle" /\ batches > 0) =>
        /\ \A k \in DOMAIN summary.details :
              \A r \in SeqToSet(summary.details[k].references) :
                 status[r] = IF summary.details[k].outcome = "done"
                             THEN "done" ELSE "pending"
        /\ \A r \in Refs : status[r] # "in_progress"
        /\ summary.tasks_attempted > 0 => AttemptedRefs # {}

\* A run has returned after one task that was deployed and one whose deploy
\* failed.
C36_Witness ==
    /\ pc = "idle"
    /\ Len(summary.details) = 2
    /\ \E k \in 1..2 : summary.details[k].outcome = "done"
    /\ \E k \in 1..2 : summary.details[k].outcome = "deploy_failed"
    /\ \A r \in Refs : status[r] # "in_progress"

\* A run has returned after a task that ended on a failed review.
C36_WitnessReview ==
    /\ pc = "idle"
    /\ \E k \in DOMAIN summary.details :
          /\ summary.details[k].outcome = "review_rejected"
          /\ summary.details[k].tokens = WriterTokens
    /\ \A r \in AttemptedRefs : status[r] = "pending"

-----------------------------------------------------------------------------
(* What done and 'Deploy failed' say about the snapshot branch *)

\* git merge --no-ff ran to the end in the deploy agent's current run
MergedInThisRun == \E k \in DOMAIN dlog : dlog[k].cmd = "merge" /\ dlog[k].rc = "ok"

\* C37: run_batch writes done over a task's references only when the deploy
\* agent, in this run, merged the task's change set into the snapshot branch
\* and that change set is not empty.
C37_DoneOnlyIfMerged ==
    [][\A r \in Refs :
          (status[r] # "done" /\ status'[r] = "done") =>
              /\ writer_data.changes # <<>>
              /\ MergedInThisRun]_vars

\* C38: references go back to pending with 'Deploy failed' only when the
\* change set is not on the snapshot branch: the deploy agent's run that
\* returned success=false has merged nothing.
C38_FailedDeployNotMerged ==
    [][(pc = "deploying" /\ pc' = "task" /\ ~dout.success) =>
          /\ \A u \in lastUpdate' :
                u.new = "pending" /\ u.agent_notes.kind = "deploy_failed"
          /\ ~MergedInThisRun
          /\ repo.mainTree = TreeOf(fs0)]_vars

-----------------------------------------------------------------------------
(* Intake and batch on the same row *)

\* The filter has answered reject for the submission
VerdictReject(r) ==
    \E q \in DOMAIN ireq :
        /\ ireq[q].id = r
        /\ ireq[q].pc \in {"filtered", "returned"}
        /\ FilterRejects(ireq[q].filter)

\* C39: however an intake request and a batch run interleave, the batch
\* never writes in_progress or done over a submission whose filter verdict
\* is reject, and intake never writes rejected over a submission the batch
\* has set to in_progress or done.
C39_IntakeBatchDisjoint ==
    [][\A r \in Refs :
          /\ VerdictReject(r) =>
                (status'[r] \in {"in_progress", "done"} => status'[r] = status[r])
          /\ status[r] \in {"in_progress", "done"} => status'[r] # "rejected"]_vars

-----------------------------------------------------------------------------
(* The two tables of the ledger *)

\* Every weekly entry is filed under a Monday and equals the sum of the
\* daily entries of the dates of that week, and every daily entry has its
\* week's entry
WeeklyIsSumOfDaily(data) ==
    /\ \A m \in DOMAIN data.weekly :
          /\ m = MondayOf(m)
          /\ data.weekly[m] = SumWeek(data.daily, DOMAIN data.daily, m \div 7)
    /\ \A d \in DOMAIN data.daily : MondayOf(d) \in DOMAIN data.weekly

====
